---------------------------- MODULE Spec2Model ----------------------------
(*************************************************************************)
(* Lumina Forge: the session controller and edit history of the image    *)
(* editor (App component), with the asynchronous completions it depends  *)
(* on (gateway call, image decode, canvas bake, file read, crop).        *)
(*                                                                       *)
(* React state is modelled as the variables below.  A synchronous        *)
(* handler reads the state of the current render; an asynchronous        *)
(* continuation (code after an await, or an onload callback) reads the   *)
(* values its closure captured when the handler was called, so every     *)
(* pending operation carries that snapshot.  The state updates of one    *)
(* handler or continuation are applied as one batch.                     *)
(*                                                                       *)
(* A button's `disabled={!canUndo}` repeats the guard of the handler it  *)
(* calls; the model keeps the handler's guard and lets the handler be    *)
(* invoked, so that its early return is exercised.  The `isLoading` /    *)
(* `isProcessing` part of the disabling has no counterpart in the        *)
(* handlers and is modelled as the guard of the user action.             *)
(*************************************************************************)
EXTENDS Integers, Sequences, FiniteSets, TLC

\* ----------------------------------------------------------------------
\* Bounds of the model
\* ----------------------------------------------------------------------

\* result images (checkpoints) created in one run
MaxImages == 2
\* source images selected in one run
MaxSources == 2
\* gateway calls that may be pending at the same time
MaxCalls == 2
\* canvas bakes whose image decode may be pending at the same time
MaxBakes == 1
\* file reads that may be pending at the same time
MaxReads == 2
\* crop renderings that may be pending at the same time
MaxCrops == 1

\* ----------------------------------------------------------------------
\* Values
\* ----------------------------------------------------------------------

\* `null` and a present value, for originalImage and error
Null == <<>>
Some(x) == <<x>>

\* useState(1024) for width and height, and handleConfirmReset
DefaultDim == 1024

\* what the user can have in the prompt field
Prompts == {"", " ", "a"}

\* String.prototype.trim on the prompts of the model
Trim(s) == IF s = " " THEN "" ELSE s

\* img.width and img.height of the source images of the model
NaturalSize == <<2, 1>>

\* err.message of a failed gateway call; "" stands for an error without message
ErrMessages == {"", "quota exceeded"}

DenoiseLabel == "Remove Noise (AI)"
EnhanceLabel == "Auto Enhance (AI)"

GenerateFallback == "Something went wrong during generation."
DenoiseFallback == "Denoising failed."
EnhanceFallback == "Auto enhancement failed."

\* rotations a bake can be started with (multiples of 90)
Rotations == {0, 90}

VARIABLES
  appState,               \* AppState
  originalImage,          \* Null or Some(ProcessedImage)
  history,                \* sequence of HistoryItem
  historyIndex,           \* cursor, -1 = none selected (0-based as in the code)
  prompt,
  width,
  height,
  showCropper,
  showResetConfirmation,
  error,                  \* Null or Some(message)
  calls,                  \* pending handleGenerate/handleDenoise/handleAutoEnhance
  bakes,                  \* pending ResultViewer.handleApplyFilters (img.onload)
  decodes,                \* pending img.onload of handleImageSelected/handleCroppedImageSelected
  reads,                  \* pending FileReader reads of ImageUploader
  crops,                  \* pending getCroppedImg of ImageCropper
  nextId,                 \* number of result images created so far
  nextSrc,                \* number of source images selected so far
  filters,                \* ResultViewer: the pending filter values
  rotation,               \* ResultViewer: the pending rotation, in degrees
  userPrompt,             \* the text the user entered last in the prompt field
  aspectRatio,            \* the aspectRatio argument computed for a gateway request
  exportFormat,           \* ResultViewer: 'png' or 'jpeg'
  exportQuality,          \* ResultViewer: 1..100
  downloads,              \* pending ResultViewer.handleDownload (img.onload)
  exported,               \* Null or Some(the file the last download produced)
  reply,                  \* what ai.models.generateContent does when it is called
  result,                 \* Null or Some(how the last editImageWithGemini ended)
  localHistory,           \* PromptEditor: history, [past, future] of {prompt, width, height}
  typingTimeout,          \* PromptEditor: typingTimeoutRef.current is a running timer
  last                    \* the handler that ran last, and the cursor it saw

vars == <<appState, originalImage, history, historyIndex, prompt, width, height,
          showCropper, showResetConfirmation, error,
          calls, bakes, decodes, reads, crops, nextId, nextSrc,
          filters, rotation, userPrompt, aspectRatio,
          exportFormat, exportQuality, downloads, exported, reply, result,
          localHistory, typingTimeout, last>>

\* the fields of the session that the user sees
session == <<appState, originalImage, history, historyIndex, prompt, width, height, error>>

pending == <<calls, bakes, decodes, reads, crops>>

\* the pending adjustment held by ResultViewer
viewer == <<filters, rotation>>

\* what the specifications of the session do not follow: they are about the
\* history and the cursor, and leave these at their initial values
aux == <<aspectRatio, exportFormat, exportQuality, downloads, exported, reply, result,
         localHistory, typingTimeout>>

\* the export settings and the downloads of ResultViewer
export == <<exportFormat, exportQuality, downloads, exported>>

\* the gateway's reply and what editImageWithGemini makes of it
gatewayIO == <<reply, result>>

\* the local undo history of PromptEditor and its debounce timer
editor == <<localHistory, typingTimeout>>

\* a rejection of unknown cause: the session specifications draw the error
\* message of a failing call when it fails
AnyReply == [kind |-> "rejected", message |-> ""]

\* useState<'png' | 'jpeg'>('png'), useState<number>(92); nothing exported yet
ExportInit ==
  /\ exportFormat = "png"
  /\ exportQuality = 92
  /\ downloads = <<>>
  /\ exported = Null

\* useState({ past: [], future: [] }), useRef(null)
EditorInit ==
  /\ localHistory = [past |-> <<>>, future |-> <<>>]
  /\ typingTimeout = FALSE

\* PromptEditor is rendered only while the session is not Idle: when it
\* unmounts its history and its timer reference are gone, and the next mount
\* starts from the initial values
EditorUnmounts ==
  /\ localHistory' = [past |-> <<>>, future |-> <<>>]
  /\ typingTimeout' = FALSE

AuxInit ==
  /\ aspectRatio = ""
  /\ ExportInit
  /\ reply = AnyReply
  /\ result = Null
  /\ EditorInit

\* ----------------------------------------------------------------------
\* Derived state (App, lines 71-74)
\* ----------------------------------------------------------------------

\* history[i] with the code's 0-based index
Item(h, i) == h[i + 1]

\* history.slice(0, n)
Slice(h, n) == SubSeq(h, 1, n)

generatedImage == IF historyIndex >= 0 THEN Some(Item(history, historyIndex).image) ELSE Null
canUndo == historyIndex >= 0
canRedo == historyIndex < Len(history) - 1

isLoading == appState = "PROCESSING"

\* the keys of ResultViewer's `filters` state
FilterKeys == {"brightness", "contrast", "grayscale", "sepia", "saturation", "temperature"}

\* useState({brightness: 100, contrast: 100, grayscale: 0, sepia: 0, saturation: 100, temperature: 0})
NeutralFilters ==
  [k \in FilterKeys |-> IF k \in {"brightness", "contrast", "saturation"} THEN 100 ELSE 0]

\* const hasActiveFilters = filters.brightness !== 100 || ... || rotation !== 0
hasActiveFilters ==
  \/ filters["brightness"] # 100
  \/ filters["contrast"] # 100
  \/ filters["grayscale"] # 0
  \/ filters["sepia"] # 0
  \/ filters["saturation"] # 100
  \/ filters["temperature"] # 0
  \/ rotation # 0

\* the editor branch of the render reads originalImage!.originalData
Crashed == appState # "IDLE" /\ originalImage = Null

\* the editor is rendered and no modal covers it
EditorUsable == appState # "IDLE" /\ originalImage # Null /\ ~showCropper /\ ~showResetConfirmation

\* a new operation fits the bounds, every pending one counted as producing its image
CanCreate == nextId + Len(calls) + Len(bakes) < MaxImages
CanSelect == nextSrc + reads + crops < MaxSources

\* `last` names the handler or continuation of the step ("other" for the ones no
\* property is about) and records the cursor it saw
Note(op) == last' = [op |-> op, idx |-> historyIndex]

\* ResultViewer after the step: its useEffect([generatedImage]) resets the pending
\* adjustment when the value of generatedImage changed, and while the session is
\* Idle the viewer is not mounted, so it starts from its initial state
ViewerFollows ==
  IF appState' = "IDLE" \/ generatedImage' # generatedImage
  THEN filters' = NeutralFilters /\ rotation' = 0
  ELSE UNCHANGED <<filters, rotation>>

\* the data of a newly selected source image: id 0, its own root
NewSource == [id |-> 0, root |-> nextSrc + 1, w |-> NaturalSize[1], h |-> NaturalSize[2]]
\* the data of an image computed from image `from`: a new id, the root of `from`
NewResult(from, w, h) == [id |-> nextId + 1, root |-> from.root, w |-> w, h |-> h]

\* what a computation from `from` at size w x h can yield: new pixels, or (for a
\* picture that is itself a canvas export of that size) pixels equal to those of
\* `from`, which canvas.toDataURL('image/png') turns into the same string
ResultsOf(from, w, h) ==
  {NewResult(from, w, h)} \cup (IF from.id # 0 /\ from.w = w /\ from.h = h THEN {from} ELSE {})

Init ==
  /\ appState = "IDLE"
  /\ originalImage = Null
  /\ history = <<>>
  /\ historyIndex = 0 - 1
  /\ prompt = ""
  /\ width = DefaultDim
  /\ height = DefaultDim
  /\ showCropper = FALSE
  /\ showResetConfirmation = FALSE
  /\ error = Null
  /\ calls = <<>>
  /\ bakes = <<>>
  /\ decodes = {}
  /\ reads = 0
  /\ crops = 0
  /\ nextId = 0
  /\ nextSrc = 0
  /\ filters = NeutralFilters
  /\ rotation = 0
  /\ userPrompt = ""
  /\ AuxInit
  /\ last = [op |-> "init", idx |-> 0 - 1]

\* ----------------------------------------------------------------------
\* Source selection
\* ----------------------------------------------------------------------

\* ImageUploader.processFile: a file that is an image starts a read
processFile ==
  /\ ~Crashed
  /\ appState = "IDLE"
  /\ ~showCropper /\ ~showResetConfirmation
  /\ reads < MaxReads
  /\ CanSelect
  /\ reads' = reads + 1
  /\ Note("other")
  /\ UNCHANGED <<session, showCropper, showResetConfirmation, calls, bakes, decodes, crops, nextId, nextSrc>>
  /\ UNCHANGED userPrompt
  /\ ViewerFollows
  /\ UNCHANGED aux

\* handleImageSelected written like handleCroppedImageSelected: "Keep the current prompt"
handleImageSelected_KeepsPrompt(image) ==
  /\ originalImage' = Some(image)
  /\ history' = <<>>
  /\ historyIndex' = 0 - 1
  /\ error' = Null
  /\ appState' = "READY_TO_EDIT"
  /\ decodes' = decodes \cup {<<image.originalData.w, image.originalData.h>>}
  /\ UNCHANGED <<prompt, width, height, showCropper, showResetConfirmation>>

\* App.handleImageSelected
handleImageSelected(image) ==
  /\ originalImage' = Some(image)
  /\ history' = <<>>
  /\ historyIndex' = 0 - 1
  /\ prompt' = ""
  /\ error' = Null
  /\ appState' = "READY_TO_EDIT"
  /\ decodes' = decodes \cup {<<image.originalData.w, image.originalData.h>>}
  /\ UNCHANGED <<width, height, showCropper, showResetConfirmation>>

\* reader.onloadend of ImageUploader
ReadDone ==
  /\ ~Crashed
  /\ reads > 0
  /\ reads' = reads - 1
  /\ nextSrc' = nextSrc + 1
  /\ handleImageSelected([originalData |-> NewSource, mimeType |-> "image/jpeg"])
  /\ Note("handleImageSelected")
  /\ UNCHANGED <<calls, bakes, crops, nextId>>
  /\ UNCHANGED userPrompt
  /\ ViewerFollows
  /\ UNCHANGED aux

\* img.onload of handleImageSelected / handleCroppedImageSelected
DecodeDone ==
  /\ ~Crashed
  /\ \E d \in decodes :
       /\ width' = d[1]
       /\ height' = d[2]
       /\ decodes' = decodes \ {d}
  /\ Note("img.onload")
  /\ UNCHANGED <<appState, originalImage, history, historyIndex, prompt, error,
                 showCropper, showResetConfirmation, calls, bakes, reads, crops, nextId, nextSrc>>
  /\ UNCHANGED userPrompt
  /\ ViewerFollows
  /\ UNCHANGED aux

\* a crop-accept that clears the prompt, as a new upload does
handleCroppedImageSelected_ClearsPrompt(croppedBase64) ==
  /\ originalImage' = Some([originalData |-> croppedBase64, mimeType |-> "image/png"])
  /\ history' = <<>>
  /\ historyIndex' = 0 - 1
  /\ prompt' = ""
  /\ error' = Null
  /\ appState' = "READY_TO_EDIT"
  /\ decodes' = decodes \cup {<<croppedBase64.w, croppedBase64.h>>}
  /\ showCropper' = FALSE
  /\ UNCHANGED <<width, height, showResetConfirmation>>

\* App.handleCroppedImageSelected
handleCroppedImageSelected(croppedBase64) ==
  /\ originalImage' = Some([originalData |-> croppedBase64, mimeType |-> "image/png"])
  /\ history' = <<>>
  /\ historyIndex' = 0 - 1
  /\ error' = Null
  /\ appState' = "READY_TO_EDIT"
  /\ decodes' = decodes \cup {<<croppedBase64.w, croppedBase64.h>>}
  /\ showCropper' = FALSE
  /\ UNCHANGED <<prompt, width, height, showResetConfirmation>>

\* onCropOriginal: the Crop button of ResultViewer, rendered when !isLoading
onCropOriginal ==
  /\ ~Crashed
  /\ EditorUsable /\ ~isLoading
  /\ showCropper' = TRUE
  /\ Note("other")
  /\ UNCHANGED <<session, showResetConfirmation, pending, nextId, nextSrc>>
  /\ UNCHANGED userPrompt
  /\ ViewerFollows
  /\ UNCHANGED aux

\* onCancel of ImageCropper
onCancel ==
  /\ ~Crashed
  /\ showCropper /\ originalImage # Null
  /\ showCropper' = FALSE
  /\ Note("other")
  /\ UNCHANGED <<session, showResetConfirmation, pending, nextId, nextSrc>>
  /\ UNCHANGED userPrompt
  /\ ViewerFollows
  /\ UNCHANGED aux

\* ImageCropper.showCroppedImage up to its await of getCroppedImg
showCroppedImage ==
  /\ ~Crashed
  /\ showCropper /\ originalImage # Null
  /\ crops < MaxCrops
  /\ CanSelect
  /\ crops' = crops + 1
  /\ Note("other")
  /\ UNCHANGED <<session, showCropper, showResetConfirmation, calls, bakes, decodes, reads, nextId, nextSrc>>
  /\ UNCHANGED userPrompt
  /\ ViewerFollows
  /\ UNCHANGED aux

\* ImageCropper.showCroppedImage after getCroppedImg resolved: onCropComplete
CropDone ==
  /\ ~Crashed
  /\ crops > 0
  /\ crops' = crops - 1
  /\ nextSrc' = nextSrc + 1
  /\ handleCroppedImageSelected(NewSource)
  /\ Note("handleCroppedImageSelected")
  /\ UNCHANGED <<calls, bakes, reads, nextId>>
  /\ UNCHANGED userPrompt
  /\ ViewerFollows
  /\ UNCHANGED aux

\* ----------------------------------------------------------------------
\* Reset
\* ----------------------------------------------------------------------

\* a Clear button that resets at once, without the confirmation dialog
handleResetRequest_ResetsAtOnce ==
  /\ ~Crashed
  /\ EditorUsable
  /\ originalImage' = Null
  /\ history' = <<>>
  /\ historyIndex' = 0 - 1
  /\ prompt' = ""
  /\ width' = DefaultDim
  /\ height' = DefaultDim
  /\ error' = Null
  /\ appState' = "IDLE"
  /\ Note("handleResetRequest")
  /\ UNCHANGED <<showCropper, showResetConfirmation, pending, nextId, nextSrc>>
  /\ UNCHANGED userPrompt
  /\ ViewerFollows
  /\ UNCHANGED aux

\* App.handleResetRequest: the Clear button of ResultViewer, never disabled
handleResetRequest ==
  /\ ~Crashed
  /\ EditorUsable
  /\ showResetConfirmation' = TRUE
  /\ Note("handleResetRequest")
  /\ UNCHANGED <<session, showCropper, pending, nextId, nextSrc>>
  /\ UNCHANGED userPrompt
  /\ ViewerFollows
  /\ UNCHANGED aux

\* Cancel button of the reset confirmation dialog
CancelReset ==
  /\ ~Crashed
  /\ showResetConfirmation
  /\ showResetConfirmation' = FALSE
  /\ Note("CancelReset")
  /\ UNCHANGED <<session, showCropper, pending, nextId, nextSrc>>
  /\ UNCHANGED userPrompt
  /\ ViewerFollows
  /\ UNCHANGED aux

\* handleConfirmReset without setHistoryIndex(-1)
handleConfirmReset_KeepsCursor ==
  /\ ~Crashed
  /\ showResetConfirmation
  /\ originalImage' = Null
  /\ history' = <<>>
  /\ prompt' = ""
  /\ width' = DefaultDim
  /\ height' = DefaultDim
  /\ error' = Null
  /\ appState' = "IDLE"
  /\ showResetConfirmation' = FALSE
  /\ Note("handleConfirmReset")
  /\ UNCHANGED <<historyIndex, showCropper, pending, nextId, nextSrc>>
  /\ UNCHANGED userPrompt
  /\ ViewerFollows
  /\ EditorUnmounts
  /\ UNCHANGED <<aspectRatio, export, gatewayIO>>

\* App.handleConfirmReset
handleConfirmReset ==
  /\ ~Crashed
  /\ showResetConfirmation
  /\ originalImage' = Null
  /\ history' = <<>>
  /\ historyIndex' = 0 - 1
  /\ prompt' = ""
  /\ width' = DefaultDim
  /\ height' = DefaultDim
  /\ error' = Null
  /\ appState' = "IDLE"
  /\ showResetConfirmation' = FALSE
  /\ Note("handleConfirmReset")
  /\ UNCHANGED <<showCropper, pending, nextId, nextSrc>>
  /\ UNCHANGED userPrompt
  /\ ViewerFollows
  /\ EditorUnmounts
  /\ UNCHANGED <<aspectRatio, export, gatewayIO>>

\* ----------------------------------------------------------------------
\* The prompt field (PromptEditor)
\* ----------------------------------------------------------------------

\* onChange of the textarea, disabled while isProcessing: setPrompt
handlePromptChange ==
  /\ ~Crashed
  /\ EditorUsable /\ ~isLoading
  /\ \E v \in Prompts : prompt' = v
  /\ prompt' # prompt
  /\ Note("other")
  /\ UNCHANGED <<appState, originalImage, history, historyIndex, width, height, error,
                 showCropper, showResetConfirmation, pending, nextId, nextSrc>>
  /\ userPrompt' = prompt'
  /\ ViewerFollows
  /\ UNCHANGED aux

\* ----------------------------------------------------------------------
\* Gateway operations: generate, denoise, enhance
\* ----------------------------------------------------------------------

\* what a pending gateway call captured when its handler was called
Call(kind, label, sent) ==
  [kind |-> kind, pc |-> "gateway", label |-> label, sent |-> sent,
   history |-> history, historyIndex |-> historyIndex,
   width |-> width, height |-> height]

\* handleGenerate sending the image on screen, as handleDenoise does
handleGenerate_SendsViewed(currentPrompt) ==
  IF originalImage = Null
  THEN UNCHANGED <<session, calls>>
  ELSE /\ appState' = "PROCESSING"
       /\ error' = Null
       /\ calls' = Append(calls, Call("generate", currentPrompt,
                                     IF historyIndex >= 0 THEN Item(history, historyIndex).image
                                     ELSE originalImage[1].originalData))
       /\ UNCHANGED <<originalImage, history, historyIndex, prompt, width, height>>

\* handleGenerate up to its await of editImageWithGemini
handleGenerate(currentPrompt) ==
  IF originalImage = Null
  THEN UNCHANGED <<session, calls>>
  ELSE /\ appState' = "PROCESSING"
       /\ error' = Null
       /\ calls' = Append(calls, Call("generate", currentPrompt, originalImage[1].originalData))
       /\ UNCHANGED <<originalImage, history, historyIndex, prompt, width, height>>

\* handleSubmit testing `prompt` instead of `prompt.trim()`
handleSubmit_NoTrim ==
  /\ ~Crashed
  /\ EditorUsable /\ ~isLoading
  /\ Len(calls) < MaxCalls /\ CanCreate
  /\ IF prompt # ""
     THEN handleGenerate(prompt)
     ELSE UNCHANGED <<session, calls>>
  /\ Note("handleSubmit")
  /\ UNCHANGED <<showCropper, showResetConfirmation, bakes, decodes, reads, crops, nextId, nextSrc>>
  /\ UNCHANGED userPrompt
  /\ ViewerFollows
  /\ UNCHANGED aux

\* PromptEditor.handleSubmit: the submit button is disabled while isProcessing
handleSubmit ==
  /\ ~Crashed
  /\ EditorUsable /\ ~isLoading
  /\ Len(calls) < MaxCalls /\ CanCreate
  /\ IF Trim(prompt) # ""
     THEN handleGenerate(prompt)
     ELSE UNCHANGED <<session, calls>>
  /\ Note("handleSubmit")
  /\ UNCHANGED <<showCropper, showResetConfirmation, bakes, decodes, reads, crops, nextId, nextSrc>>
  /\ UNCHANGED userPrompt
  /\ ViewerFollows
  /\ UNCHANGED aux

\* sourceImage taken from the end of the history instead of the cursor
sourceImage_LastEntry ==
  IF Len(history) > 0 THEN Some(history[Len(history)].image)
  ELSE IF originalImage # Null THEN Some(originalImage[1].originalData)
  ELSE Null

\* const sourceImage = generatedImage || originalImage?.originalData
sourceImage ==
  IF generatedImage # Null THEN generatedImage
  ELSE IF originalImage # Null THEN Some(originalImage[1].originalData)
  ELSE Null

\* handleDenoise / handleAutoEnhance up to their await of editImageWithGemini
handleAiTool(kind, label) ==
  IF sourceImage = Null
  THEN UNCHANGED <<session, calls>>
  ELSE /\ appState' = "PROCESSING"
       /\ error' = Null
       /\ calls' = Append(calls, Call(kind, label, sourceImage[1]))
       /\ UNCHANGED <<originalImage, history, historyIndex, prompt, width, height>>

\* the AI tool buttons are in the adjust panel: showFilters && generatedImage && !isLoading
AdjustPanelUsable == EditorUsable /\ ~isLoading /\ generatedImage # Null

\* handleDenoise labelling its checkpoint with the text of the prompt field
handleDenoise_LabelsWithPrompt ==
  /\ ~Crashed
  /\ AdjustPanelUsable
  /\ Len(calls) < MaxCalls /\ CanCreate
  /\ handleAiTool("denoise", prompt)
  /\ Note("handleDenoise")
  /\ UNCHANGED <<showCropper, showResetConfirmation, bakes, decodes, reads, crops, nextId, nextSrc>>
  /\ UNCHANGED userPrompt
  /\ ViewerFollows
  /\ UNCHANGED aux

\* App.handleDenoise: the Remove Noise button of the adjust panel
handleDenoise ==
  /\ ~Crashed
  /\ AdjustPanelUsable
  /\ Len(calls) < MaxCalls /\ CanCreate
  /\ handleAiTool("denoise", DenoiseLabel)
  /\ Note("handleDenoise")
  /\ UNCHANGED <<showCropper, showResetConfirmation, bakes, decodes, reads, crops, nextId, nextSrc>>
  /\ UNCHANGED userPrompt
  /\ ViewerFollows
  /\ UNCHANGED aux

handleAutoEnhance ==
  /\ ~Crashed
  /\ AdjustPanelUsable
  /\ Len(calls) < MaxCalls /\ CanCreate
  /\ handleAiTool("enhance", EnhanceLabel)
  /\ Note("handleAutoEnhance")
  /\ UNCHANGED <<showCropper, showResetConfirmation, bakes, decodes, reads, crops, nextId, nextSrc>>
  /\ UNCHANGED userPrompt
  /\ ViewerFollows
  /\ UNCHANGED aux

\* a sequence without its i-th element
RemoveAt(q, i) == SubSeq(q, 1, i - 1) \o SubSeq(q, i + 1, Len(q))

\* history.slice(0, historyIndex + 1) followed by push(newHistoryItem), on the captured values
Pushed(h, idx, item) == Append(Slice(h, idx + 1), item)

\* the continuation written to read width and height when it runs, not when the handler was called
CallSucceeds_LiveDims(i) ==
  LET c == calls[i]
  IN /\ c.pc = "gateway"
     /\ \E img \in ResultsOf(c.sent, width, height) :
          LET item == [image |-> img, prompt |-> c.label, width |-> width, height |-> height]
              newHistory == Pushed(c.history, c.historyIndex, item)
          IN /\ history' = newHistory
             /\ historyIndex' = Len(newHistory) - 1
     /\ prompt' = IF c.kind = "generate" THEN prompt ELSE c.label
     /\ appState' = "COMPLETE"
     /\ calls' = RemoveAt(calls, i)
     /\ nextId' = nextId + 1
     /\ last' = [op |-> c.kind \o ":ok", idx |-> historyIndex]
     /\ UNCHANGED <<originalImage, width, height, error>>

\* the continuation of a gateway handler after both awaits succeeded
CallSucceeds(i) ==
  LET c == calls[i]
  IN /\ c.pc = "gateway"
     /\ \E img \in ResultsOf(c.sent, c.width, c.height) :
          LET item == [image |-> img, prompt |-> c.label, width |-> c.width, height |-> c.height]
              newHistory == Pushed(c.history, c.historyIndex, item)
          IN /\ history' = newHistory
             /\ historyIndex' = Len(newHistory) - 1
     /\ prompt' = IF c.kind = "generate" THEN prompt ELSE c.label
     /\ appState' = "COMPLETE"
     /\ calls' = RemoveAt(calls, i)
     /\ nextId' = nextId + 1
     /\ last' = [op |-> c.kind \o ":ok", idx |-> historyIndex]
     /\ UNCHANGED <<originalImage, width, height, error>>

\* err.message || "<fallback>"
MessageOf(kind, m) ==
  IF m # "" THEN m
  ELSE CASE kind = "generate" -> GenerateFallback
         [] kind = "denoise" -> DenoiseFallback
         [] OTHER -> EnhanceFallback

\* the catch block of a gateway handler: editImageWithGemini rethrew
CallFails(i, m) ==
  LET c == calls[i]
  IN /\ c.pc = "gateway"
     /\ error' = Some(MessageOf(c.kind, m))
     /\ appState' = "ERROR"
     /\ calls' = RemoveAt(calls, i)
     /\ last' = [op |-> c.kind \o ":failed", idx |-> historyIndex]
     /\ UNCHANGED <<originalImage, history, historyIndex, prompt, width, height, nextId>>

\* a handler that will never continue: what it captured is dead
Hung(c) ==
  [kind |-> c.kind, pc |-> "resize", label |-> c.label, sent |-> c.sent,
   history |-> <<>>, historyIndex |-> 0 - 1, width |-> DefaultDim, height |-> DefaultDim]

\* the gateway returned bytes that do not decode: resizeImage has no onerror,
\* its promise never settles and the handler stays at the second await
CallHangs(i) ==
  LET c == calls[i]
  IN /\ c.pc = "gateway"
     /\ calls' = [calls EXCEPT ![i] = Hung(c)]
     /\ last' = [op |-> c.kind \o ":hung", idx |-> historyIndex]
     /\ UNCHANGED <<session, nextId>>

GatewayResolves ==
  /\ ~Crashed
  /\ \E i \in 1..Len(calls) :
       \/ CallSucceeds(i)
       \/ \E m \in ErrMessages : CallFails(i, m)
       \/ CallHangs(i)
  /\ UNCHANGED <<showCropper, showResetConfirmation, bakes, decodes, reads, crops, nextSrc>>
  /\ UNCHANGED userPrompt
  /\ ViewerFollows
  /\ UNCHANGED aux

\* ----------------------------------------------------------------------
\* Baking the pending adjustment
\* ----------------------------------------------------------------------

\* ResultViewer.handleApplyFilters up to img.onload (Apply button of the adjust panel)
StartBake ==
  /\ ~Crashed
  /\ AdjustPanelUsable
  /\ Len(bakes) < MaxBakes /\ CanCreate
  /\ \E r \in Rotations :
       bakes' = Append(bakes, [base |-> generatedImage[1], rotation |-> r,
                               history |-> history, historyIndex |-> historyIndex])
  /\ Note("other")
  /\ UNCHANGED <<session, showCropper, showResetConfirmation, calls, decodes, reads, crops, nextId, nextSrc>>
  /\ UNCHANGED userPrompt
  /\ ViewerFollows
  /\ UNCHANGED aux

\* App.handleApplyFilters, on the values its closure captured
handleApplyFilters(h, idx, newImage) ==
  IF idx < 0
  THEN UNCHANGED <<history, historyIndex>>
  ELSE LET currentItem == Item(h, idx)
           item == [image |-> newImage, prompt |-> currentItem.prompt,
                    width |-> currentItem.width, height |-> currentItem.height]
           newHistory == Pushed(h, idx, item)
       IN /\ history' = newHistory
          /\ historyIndex' = Len(newHistory) - 1

\* a canvas that always takes the width and height of the image
CanvasOf_NoSwap(img, deg) == <<img.w, img.h>>

\* canvas size of the bake and of the export: swapped when rotation % 180 !== 0
CanvasOf(img, deg) ==
  IF deg % 180 # 0 THEN <<img.h, img.w>> ELSE <<img.w, img.h>>

\* img.onload of ResultViewer.handleApplyFilters: draw, toDataURL, onApplyFilters
BakeLoaded ==
  /\ ~Crashed
  /\ \E i \in 1..Len(bakes) :
       LET b == bakes[i]
           size == CanvasOf(b.base, b.rotation)
       IN /\ \E img \in ResultsOf(b.base, size[1], size[2]) :
               handleApplyFilters(b.history, b.historyIndex, img)
          /\ bakes' = RemoveAt(bakes, i)
  /\ nextId' = nextId + 1
  /\ Note("bake")
  /\ UNCHANGED <<appState, originalImage, prompt, width, height, error,
                 showCropper, showResetConfirmation, calls, decodes, reads, crops, nextSrc>>
  /\ UNCHANGED userPrompt
  /\ ViewerFollows
  /\ UNCHANGED aux

\* ----------------------------------------------------------------------
\* Undo and redo
\* ----------------------------------------------------------------------

\* handleUndo without `if (!canUndo) return`
handleUndo_NoGuard ==
  LET newIndex == historyIndex - 1
  IN /\ historyIndex' = newIndex
     /\ IF newIndex >= 0
        THEN /\ prompt' = Item(history, newIndex).prompt
             /\ width' = Item(history, newIndex).width
             /\ height' = Item(history, newIndex).height
             /\ appState' = "COMPLETE"
        ELSE /\ appState' = "READY_TO_EDIT"
             /\ UNCHANGED <<prompt, width, height>>
     /\ UNCHANGED <<originalImage, history, error>>

\* App.handleUndo
handleUndo ==
  IF ~canUndo
  THEN UNCHANGED session
  ELSE LET newIndex == historyIndex - 1
       IN /\ historyIndex' = newIndex
          /\ IF newIndex >= 0
             THEN /\ prompt' = Item(history, newIndex).prompt
                  /\ width' = Item(history, newIndex).width
                  /\ height' = Item(history, newIndex).height
                  /\ appState' = "COMPLETE"
             ELSE /\ appState' = "READY_TO_EDIT"
                  /\ UNCHANGED <<prompt, width, height>>
          /\ UNCHANGED <<originalImage, history, error>>

\* handleRedo without setWidth(item.width) and setHeight(item.height)
handleRedo_KeepsDims ==
  IF ~canRedo
  THEN UNCHANGED session
  ELSE LET newIndex == historyIndex + 1
           item == Item(history, newIndex)
       IN /\ historyIndex' = newIndex
          /\ prompt' = item.prompt
          /\ appState' = "COMPLETE"
          /\ UNCHANGED <<originalImage, history, error, width, height>>

\* handleRedo that also cuts the history at the new cursor
handleRedo_CutsHistory ==
  IF ~canRedo
  THEN UNCHANGED session
  ELSE LET newIndex == historyIndex + 1
           item == Item(history, newIndex)
       IN /\ historyIndex' = newIndex
          /\ history' = Slice(history, newIndex + 1)
          /\ prompt' = item.prompt
          /\ width' = item.width
          /\ height' = item.height
          /\ appState' = "COMPLETE"
          /\ UNCHANGED <<originalImage, error>>

\* App.handleRedo
handleRedo ==
  IF ~canRedo
  THEN UNCHANGED session
  ELSE LET newIndex == historyIndex + 1
           item == Item(history, newIndex)
       IN /\ historyIndex' = newIndex
          /\ prompt' = item.prompt
          /\ width' = item.width
          /\ height' = item.height
          /\ appState' = "COMPLETE"
          /\ UNCHANGED <<originalImage, history, error>>

\* the Undo buttons, disabled while isLoading / isProcessing
onUndo ==
  /\ ~Crashed
  /\ EditorUsable /\ ~isLoading
  /\ handleUndo
  /\ Note("handleUndo")
  /\ UNCHANGED <<showCropper, showResetConfirmation, pending, nextId, nextSrc>>
  /\ UNCHANGED userPrompt
  /\ ViewerFollows
  /\ UNCHANGED aux

\* the Redo buttons, disabled while isLoading / isProcessing
onRedo ==
  /\ ~Crashed
  /\ EditorUsable /\ ~isLoading
  /\ handleRedo
  /\ Note("handleRedo")
  /\ UNCHANGED <<showCropper, showResetConfirmation, pending, nextId, nextSrc>>
  /\ UNCHANGED userPrompt
  /\ ViewerFollows
  /\ UNCHANGED aux

Next ==
  \/ processFile
  \/ ReadDone
  \/ DecodeDone
  \/ onCropOriginal
  \/ onCancel
  \/ showCroppedImage
  \/ CropDone
  \/ handleResetRequest
  \/ CancelReset
  \/ handleConfirmReset
  \/ handlePromptChange
  \/ handleSubmit
  \/ handleDenoise
  \/ handleAutoEnhance
  \/ GatewayResolves
  \/ StartBake
  \/ BakeLoaded
  \/ onUndo
  \/ onRedo

Spec == Init /\ [][Next]_vars

\* ----------------------------------------------------------------------
\* An editing session picked up in the middle: one decoded source, a history
\* of up to two checkpoints made earlier, the cursor anywhere on it, nothing
\* pending. The handlers are the ones above; the source stays the same.
\* ----------------------------------------------------------------------

\* width and height a checkpoint can carry: the defaults or the natural size of the source
ItemDims == {<<DefaultDim, DefaultDim>>, NaturalSize}

\* a checkpoint made earlier: HistoryItem {image, prompt, width, height}
EarlierItem(id, label, d) ==
  [image |-> [id |-> id, root |-> 1, w |-> d[1], h |-> d[2]], prompt |-> label,
   width |-> d[1], height |-> d[2]]

\* the first checkpoint of a history is a generate (the AI tools and the bake need a viewed checkpoint)
FirstItems == {EarlierItem(11, "a", d) : d \in ItemDims}
SecondItems == {EarlierItem(12, l, d) : l \in {"a", DenoiseLabel}, d \in ItemDims}

EarlierHistories ==
  {<<>>} \cup {<<a>> : a \in FirstItems} \cup {<<a, b>> : a \in FirstItems, b \in SecondItems}

\* the session as an undo, a redo or a completion leaves it on cursor idx of history h
InitEditing ==
  \E h \in EarlierHistories : \E idx \in (0 - 1)..(Len(h) - 1) :
    /\ history = h
    /\ historyIndex = idx
    /\ originalImage = Some([originalData |-> [id |-> 0, root |-> 1, w |-> NaturalSize[1], h |-> NaturalSize[2]],
                             mimeType |-> "image/jpeg"])
    /\ appState = IF idx >= 0 THEN "COMPLETE" ELSE "READY_TO_EDIT"
    /\ prompt = IF idx >= 0 THEN Item(h, idx).prompt ELSE "a"
    /\ width = IF idx >= 0 THEN Item(h, idx).width ELSE NaturalSize[1]
    /\ height = IF idx >= 0 THEN Item(h, idx).height ELSE NaturalSize[2]
    /\ showCropper = FALSE
    /\ showResetConfirmation = FALSE
    /\ error = Null
    /\ calls = <<>>
    /\ bakes = <<>>
    /\ decodes = {}
    /\ reads = 0
    /\ crops = 0
    /\ nextId = 1
    /\ nextSrc = 1
    /\ filters = NeutralFilters
    /\ rotation = 0
    /\ userPrompt = "a"
    /\ AuxInit
    /\ last = [op |-> "init", idx |-> idx]

NextEditing ==
  \/ handlePromptChange
  \/ handleSubmit
  \/ handleDenoise
  \/ handleAutoEnhance
  \/ GatewayResolves
  \/ StartBake
  \/ BakeLoaded
  \/ onUndo
  \/ onRedo

SpecEditing == InitEditing /\ [][NextEditing]_vars

\* ----------------------------------------------------------------------
\* The pending adjustment of ResultViewer (filters and rotation)
\* ----------------------------------------------------------------------

\* values the range input of a filter delivers (its min, its neutral value, its max)
SliderValues(k) ==
  CASE k \in {"brightness", "contrast", "saturation"} -> {0, 100, 200}
    [] k \in {"grayscale", "sepia"} -> {0, 100}
    [] OTHER -> {0 - 100, 0, 100}

\* ResultViewer.handleFilterChange
handleFilterChange(key, value) == filters' = [filters EXCEPT ![key] = value]

\* the remainder operator of JavaScript: the sign of the result is the sign of a
Rem(a, b) == IF a >= 0 THEN a % b ELSE 0 - ((0 - a) % b)

\* an updater of handleRotate that does not add 360 before taking the remainder
Rotated_NoWrap(prev, direction) ==
  IF direction = "cw" THEN Rem(prev + 90, 360) ELSE Rem(prev - 90, 360)

\* the updater handleRotate passes to setRotation
Rotated(prev, direction) ==
  IF direction = "cw" THEN Rem(prev + 90, 360) ELSE Rem(prev - 90 + 360, 360)

\* ResultViewer.handleRotate
handleRotate(direction) == rotation' = Rotated(rotation, direction)

\* ResultViewer.handleResetFilters
handleResetFilters == filters' = NeutralFilters /\ rotation' = 0

\* onChange of a filter's range input, for the filters in `keys`
onSlide(keys) ==
  /\ ~Crashed
  /\ AdjustPanelUsable
  /\ \E k \in keys : \E v \in SliderValues(k) :
       /\ v # filters[k]
       /\ handleFilterChange(k, v)
  /\ Note("handleFilterChange")
  /\ UNCHANGED <<session, showCropper, showResetConfirmation, pending, nextId, nextSrc,
                 rotation, userPrompt>>
  /\ UNCHANGED aux

\* the Rotate Left / Rotate Right buttons
onRotate ==
  /\ ~Crashed
  /\ AdjustPanelUsable
  /\ \E direction \in {"cw", "ccw"} : handleRotate(direction)
  /\ Note("handleRotate")
  /\ UNCHANGED <<session, showCropper, showResetConfirmation, pending, nextId, nextSrc,
                 filters, userPrompt>>
  /\ UNCHANGED aux

\* a Reset Filters button that is never disabled
onResetFilters_NotGated ==
  /\ ~Crashed
  /\ AdjustPanelUsable
  /\ handleResetFilters
  /\ Note("handleResetFilters")
  /\ UNCHANGED <<session, showCropper, showResetConfirmation, pending, nextId, nextSrc, userPrompt>>
  /\ UNCHANGED aux

\* the Reset Filters button: disabled={!hasActiveFilters}
onResetFilters ==
  /\ ~Crashed
  /\ AdjustPanelUsable
  /\ hasActiveFilters
  /\ handleResetFilters
  /\ Note("handleResetFilters")
  /\ UNCHANGED <<session, showCropper, showResetConfirmation, pending, nextId, nextSrc, userPrompt>>
  /\ UNCHANGED aux

\* the Apply button: disabled={!hasActiveFilters}; ResultViewer.handleApplyFilters
\* up to img.onload, with the rotation of the render of the click
onApply ==
  /\ ~Crashed
  /\ AdjustPanelUsable
  /\ hasActiveFilters
  /\ Len(bakes) < MaxBakes /\ CanCreate
  /\ bakes' = Append(bakes, [base |-> generatedImage[1], rotation |-> rotation,
                             history |-> history, historyIndex |-> historyIndex])
  /\ Note("Apply")
  /\ UNCHANGED <<session, showCropper, showResetConfirmation, calls, decodes, reads, crops,
                 nextId, nextSrc, viewer, userPrompt>>
  /\ UNCHANGED aux

\* the viewer with one generated checkpoint on screen
InitFilters ==
  /\ InitEditing
  /\ history = <<EarlierItem(11, "a", NaturalSize)>>
  /\ historyIndex = 0

NextFilters ==
  \/ onSlide(FilterKeys)
  \/ onRotate
  \/ onResetFilters
  \/ onApply
  \/ BakeLoaded

SpecFilters == InitFilters /\ [][NextFilters]_vars

\* the editing session with the viewer's controls: brightness stands for the six sliders
NextViewer ==
  \/ handleSubmit
  \/ handleDenoise
  \/ handleAutoEnhance
  \/ GatewayResolves
  \/ onSlide({"brightness"})
  \/ onRotate
  \/ onResetFilters
  \/ onApply
  \/ BakeLoaded
  \/ onUndo
  \/ onRedo

SpecViewer == InitEditing /\ [][NextViewer]_vars

\* ----------------------------------------------------------------------
\* JavaScript numbers (IEEE 754 binary64), for the positive values that
\* getClosestAspectRatio computes with. A value is m * 2^e with m a sequence
\* of bits, most significant first, without leading zeros (<<>> is 0); the
\* result of every operation is rounded to 53 significant bits, ties to even.
\* ----------------------------------------------------------------------

\* bits of the significand of a binary64 number
Precision == 53

\* a division computes its quotient ChunkBits bits at a time; QuotientChunks
\* chunks after the binary point leave more than Precision + 2 significant
\* bits for quotients above 2^-12, and a remainder times 2^ChunkBits stays
\* below 2^31 for divisors up to 2^12
ChunkBits == 18
QuotientChunks == 4

\* the binary digits of n < 2^len, as len bits
BitsOf(n, len) == [i \in 1..len |-> (n \div 2 ^ (len - i)) % 2]

Zeros(n) == [i \in 1..n |-> 0]

\* the positions of the ones of b
Ones(b) == {i \in 1..Len(b) : b[i] = 1}

\* without leading zeros
Strip(b) ==
  IF Ones(b) = {} THEN <<>>
  ELSE SubSeq(b, CHOOSE i \in Ones(b) : \A j \in Ones(b) : i <= j, Len(b))

\* b + 1
Inc(b) ==
  LET zeroes == {i \in 1..Len(b) : b[i] = 0}
  IN  IF zeroes = {} THEN <<1>> \o Zeros(Len(b))
      ELSE LET z == CHOOSE i \in zeroes : \A j \in zeroes : i >= j
           IN  [i \in 1..Len(b) |-> IF i < z THEN b[i] ELSE IF i = z THEN 1 ELSE 0]

\* round to nearest, ties to even
Round(x) ==
  IF Len(x.m) <= Precision THEN x
  ELSE LET kept == SubSeq(x.m, 1, Precision)
           rest == SubSeq(x.m, Precision + 1, Len(x.m))
           sticky == \E i \in 2..Len(rest) : rest[i] = 1
           up == rest[1] = 1 /\ (sticky \/ kept[Precision] = 1)
       IN  [m |-> IF up THEN Inc(kept) ELSE kept, e |-> x.e + Len(rest)]

RECURSIVE FracBits(_, _, _)
\* k chunks of r / h after the binary point, and one more bit that is 1 when
\* a remainder is left
FracBits(r, h, k) ==
  IF k = 0 THEN <<IF r = 0 THEN 0 ELSE 1>>
  ELSE BitsOf((r * 2 ^ ChunkBits) \div h, ChunkBits)
         \o FracBits((r * 2 ^ ChunkBits) % h, h, k - 1)

\* w / h of two positive integers; also the value of the decimal literal w/h
Div(w, h) ==
  Round([m |-> Strip(BitsOf(w \div h, ChunkBits) \o FracBits(w % h, h, QuotientChunks)),
         e |-> 0 - (QuotientChunks * ChunkBits + 1)])

\* the significands of a and b at their common exponent, with equal length
Aligned(a, b) ==
  LET e == IF a.e < b.e THEN a.e ELSE b.e
      x == a.m \o Zeros(a.e - e)
      y == b.m \o Zeros(b.e - e)
      n == IF Len(x) > Len(y) THEN Len(x) ELSE Len(y)
  IN  [x |-> Zeros(n - Len(x)) \o x, y |-> Zeros(n - Len(y)) \o y, e |-> e]

\* x < y, for bit sequences of equal length
LessBits(x, y) ==
  LET differ == {i \in 1..Len(x) : x[i] # y[i]}
  IN  /\ differ # {}
      /\ x[CHOOSE i \in differ : \A j \in differ : i <= j] = 0

\* a < b
Less(a, b) == LET al == Aligned(a, b) IN LessBits(al.x, al.y)

\* x - y, for x >= y of equal length
SubBits(x, y) ==
  LET n == Len(x)
      \* position i lends to the ones below it when x is less than y there
      borrow(i) ==
        IF \E j \in (i + 1)..n : x[j] < y[j] /\ \A k \in (i + 1)..(j - 1) : x[k] = y[k]
        THEN 1 ELSE 0
  IN  [i \in 1..n |-> (x[i] - y[i] - borrow(i) + 2) % 2]

\* Math.abs(a - b)
AbsDiff(a, b) ==
  LET al == Aligned(a, b)
      d == IF LessBits(al.x, al.y) THEN SubBits(al.y, al.x) ELSE SubBits(al.x, al.y)
  IN  Round([m |-> Strip(d), e |-> al.e])

\* ----------------------------------------------------------------------
\* getClosestAspectRatio
\* ----------------------------------------------------------------------

\* const ratios: id and value, the value as the fraction its literal denotes
ratios ==
  << [id |-> "1:1",  value |-> <<1, 1>>],
     [id |-> "3:4",  value |-> <<75, 100>>],
     [id |-> "4:3",  value |-> <<1333, 1000>>],
     [id |-> "9:16", value |-> <<5625, 10000>>],
     [id |-> "16:9", value |-> <<1777, 1000>>] >>

\* the number a ratio's literal is parsed to
ValueOf(r) == Div(r.value[1], r.value[2])

\* the test of the callback of ratios.reduce: curr is strictly closer than prev
Closer(prev, curr, targetRatio) ==
  Less(AbsDiff(ValueOf(curr), targetRatio), AbsDiff(ValueOf(prev), targetRatio))

RECURSIVE Reduce(_, _, _)
\* ratios.reduce without initial value, over the elements rs that are left:
\* the callback returns curr when it is strictly closer, else prev
Reduce(rs, prev, targetRatio) ==
  IF rs = <<>> THEN prev
  ELSE IF Closer(prev, Head(rs), targetRatio) THEN Reduce(Tail(rs), Head(rs), targetRatio)
  ELSE Reduce(Tail(rs), prev, targetRatio)

\* a getClosestAspectRatio that divides height by width
getClosestAspectRatio_Inverted(w, h) ==
  Reduce(Tail(ratios), Head(ratios), Div(h, w)).id

getClosestAspectRatio(w, h) ==
  Reduce(Tail(ratios), Head(ratios), Div(w, h)).id

\* widths and heights the aspect ratio is computed for: the dimension inputs
\* accept every positive integer (Math.max(1, parseInt(...)))
Dims == {1, 7, 8, 21, 32, 200, 311, 600, 800, 1000, 1024, 1080, 1920, 2000, 2333}

\* the session with a source loaded and nothing generated, after the user
\* entered the prompt 'a', the width w and the height h
ReadyToEdit(w, h) ==
  /\ width = w
  /\ height = h
  /\ appState = "READY_TO_EDIT"
  /\ originalImage = Some([originalData |-> [id |-> 0, root |-> 1, w |-> NaturalSize[1], h |-> NaturalSize[2]],
                           mimeType |-> "image/jpeg"])
  /\ history = <<>>
  /\ historyIndex = 0 - 1
  /\ prompt = "a"
  /\ showCropper = FALSE
  /\ showResetConfirmation = FALSE
  /\ error = Null
  /\ calls = <<>>
  /\ bakes = <<>>
  /\ decodes = {}
  /\ reads = 0
  /\ crops = 0
  /\ nextId = 0
  /\ nextSrc = 1
  /\ filters = NeutralFilters
  /\ rotation = 0
  /\ userPrompt = "a"
  /\ last = [op |-> "init", idx |-> 0 - 1]

InitAspect ==
  /\ \E w \in Dims, h \in Dims : ReadyToEdit(w, h)
  /\ AuxInit

\* const aspectRatio = getClosestAspectRatio(width, height) of handleGenerate,
\* handleDenoise and handleAutoEnhance
RequestAspectRatio ==
  /\ aspectRatio = ""
  /\ aspectRatio' = getClosestAspectRatio(width, height)
  /\ Note("getClosestAspectRatio")
  /\ UNCHANGED <<session, showCropper, showResetConfirmation, pending, nextId, nextSrc,
                 viewer, userPrompt, export, gatewayIO, editor>>

NextAspect == RequestAspectRatio

SpecAspect == InitAspect /\ [][NextAspect]_vars

\* ----------------------------------------------------------------------
\* Export (ResultViewer.handleDownload) and the drawing it shares with the bake
\* ----------------------------------------------------------------------

\* downloads whose image decode may be pending at the same time
MaxDownloads == 1

\* values of the quality slider (min 1, max 100) in the model; 92 is its initial value
Qualities == {1, 92, 100}

\* a fraction a / b, and the product of two fractions
Frac(a, b) == <<a, b>>
Times(x, y) == <<x[1] * y[1], x[2] * y[2]>>

Abs(n) == IF n < 0 THEN 0 - n ELSE n

\* ctx.filter of applyCanvasTransformations: the five CSS filter functions
ColorFilter(f) ==
  [brightness |-> f["brightness"], contrast |-> f["contrast"], grayscale |-> f["grayscale"],
   sepia |-> f["sepia"], saturate |-> f["saturation"]]

\* an applyCanvasTransformations whose overlay alpha is temperature / 100
applyCanvasTransformations_AlphaPerHundred(f, deg, canvasWidth, canvasHeight) ==
  << [op |-> "drawImage", filter |-> ColorFilter(f), rotate |-> deg,
      composite |-> "source-over"] >>
  \o (IF f["temperature"] # 0
      THEN << [op |-> "fillRect",
               fillStyle |-> IF f["temperature"] > 0
                             THEN [rgb |-> <<255, 147, 41>>, alpha |-> Frac(f["temperature"], 100)]
                             ELSE [rgb |-> <<0, 160, 255>>, alpha |-> Frac(Abs(f["temperature"]), 100)],
               filter |-> "none", rotate |-> 0, composite |-> "soft-light",
               rect |-> <<canvasWidth, canvasHeight>>] >>
      ELSE <<>>)

\* ResultViewer.applyCanvasTransformations with the filters f and the rotation
\* deg of its render: the drawing operations on the canvas, in their order
applyCanvasTransformations(f, deg, canvasWidth, canvasHeight) ==
  << [op |-> "drawImage", filter |-> ColorFilter(f), rotate |-> deg,
      composite |-> "source-over"] >>
  \o (IF f["temperature"] # 0
      THEN << [op |-> "fillRect",
               fillStyle |-> IF f["temperature"] > 0
                             THEN [rgb |-> <<255, 147, 41>>,
                                   alpha |-> Times(Frac(f["temperature"], 100), Frac(1, 2))]
                             ELSE [rgb |-> <<0, 160, 255>>,
                                   alpha |-> Times(Frac(Abs(f["temperature"]), 100), Frac(1, 2))],
               filter |-> "none", rotate |-> 0, composite |-> "soft-light",
               rect |-> <<canvasWidth, canvasHeight>>] >>
      ELSE <<>>)

\* onChange of the format selector
setExportFormat ==
  /\ ~Crashed
  /\ EditorUsable /\ ~isLoading /\ generatedImage # Null
  /\ \E f \in {"png", "jpeg"} : f # exportFormat /\ exportFormat' = f
  /\ Note("setExportFormat")
  /\ UNCHANGED <<session, showCropper, showResetConfirmation, pending, nextId, nextSrc,
                 viewer, userPrompt, aspectRatio, gatewayIO, editor,
                 exportQuality, downloads, exported>>

\* onChange of the quality slider, rendered when exportFormat === 'jpeg'
setExportQuality ==
  /\ ~Crashed
  /\ EditorUsable /\ ~isLoading /\ generatedImage # Null
  /\ exportFormat = "jpeg"
  /\ \E q \in Qualities : q # exportQuality /\ exportQuality' = q
  /\ Note("setExportQuality")
  /\ UNCHANGED <<session, showCropper, showResetConfirmation, pending, nextId, nextSrc,
                 viewer, userPrompt, aspectRatio, gatewayIO, editor,
                 exportFormat, downloads, exported>>

\* a download that resets the pending adjustment, as Apply does
handleDownload_ResetsAdjustment ==
  /\ ~Crashed
  /\ EditorUsable /\ ~isLoading /\ generatedImage # Null
  /\ Len(downloads) < MaxDownloads
  /\ downloads' = Append(downloads, [image |-> generatedImage[1], filters |-> filters,
                                     rotation |-> rotation, exportFormat |-> exportFormat,
                                     exportQuality |-> exportQuality])
  /\ filters' = NeutralFilters
  /\ rotation' = 0
  /\ Note("handleDownload")
  /\ UNCHANGED <<session, showCropper, showResetConfirmation, pending, nextId, nextSrc,
                 userPrompt, aspectRatio, gatewayIO, editor,
                 exportFormat, exportQuality, exported>>

\* ResultViewer.handleDownload up to img.onload (the Download Asset button),
\* with the filters, rotation and export settings of the render of the click
handleDownload ==
  /\ ~Crashed
  /\ EditorUsable /\ ~isLoading /\ generatedImage # Null
  /\ Len(downloads) < MaxDownloads
  /\ downloads' = Append(downloads, [image |-> generatedImage[1], filters |-> filters,
                                     rotation |-> rotation, exportFormat |-> exportFormat,
                                     exportQuality |-> exportQuality])
  /\ Note("handleDownload")
  /\ UNCHANGED <<session, showCropper, showResetConfirmation, pending, nextId, nextSrc,
                 viewer, userPrompt, aspectRatio, gatewayIO, editor,
                 exportFormat, exportQuality, exported>>

\* a download that draws the picture before it fills the background
Exported_FillAfterImage(d) ==
  LET size == CanvasOf(d.image, d.rotation)
  IN  [canvas |-> size,
       ops |-> applyCanvasTransformations(d.filters, d.rotation, size[1], size[2])
               \o (IF d.exportFormat = "jpeg"
                   THEN << [op |-> "fillRect", fillStyle |-> "#FFFFFF", filter |-> "none",
                            rotate |-> 0, composite |-> "source-over", rect |-> size] >>
                   ELSE <<>>),
       mimeType |-> IF d.exportFormat = "png" THEN "image/png" ELSE "image/jpeg",
       quality |-> IF d.exportFormat = "png" THEN Frac(1, 1) ELSE Frac(d.exportQuality, 100)]

\* what img.onload of handleDownload hands to canvas.toDataURL(mimeType, quality)
Exported(d) ==
  LET size == CanvasOf(d.image, d.rotation)
  IN  [canvas |-> size,
       ops |-> (IF d.exportFormat = "jpeg"
                THEN << [op |-> "fillRect", fillStyle |-> "#FFFFFF", filter |-> "none",
                         rotate |-> 0, composite |-> "source-over", rect |-> size] >>
                ELSE <<>>)
               \o applyCanvasTransformations(d.filters, d.rotation, size[1], size[2]),
       mimeType |-> IF d.exportFormat = "png" THEN "image/png" ELSE "image/jpeg",
       quality |-> IF d.exportFormat = "png" THEN Frac(1, 1) ELSE Frac(d.exportQuality, 100)]

\* img.onload of ResultViewer.handleDownload
DownloadLoaded ==
  /\ ~Crashed
  /\ \E i \in 1..Len(downloads) :
       /\ exported' = Some(Exported(downloads[i]))
       /\ downloads' = RemoveAt(downloads, i)
  /\ Note("download")
  /\ UNCHANGED <<session, showCropper, showResetConfirmation, pending, nextId, nextSrc,
                 viewer, userPrompt, aspectRatio, gatewayIO, editor,
                 exportFormat, exportQuality>>

\* the viewer with one generated checkpoint on screen: rotation, bake and export
NextCanvas ==
  \/ onRotate
  \/ onApply
  \/ BakeLoaded
  \/ handleDownload
  \/ DownloadLoaded

SpecCanvas == InitFilters /\ [][NextCanvas]_vars

\* the viewer with a pending adjustment, the cursor moving between the source
\* and one checkpoint, and the export
NextDownload ==
  \/ onSlide({"brightness"})
  \/ onRotate
  \/ onUndo
  \/ onRedo
  \/ handleDownload
  \/ DownloadLoaded

SpecDownload == InitFilters /\ [][NextDownload]_vars

\* the viewer with one generated checkpoint on screen: adjustment and export
\* (of the six sliders the one for temperature, which decides about the overlay)
NextExport ==
  \/ onSlide({"temperature"})
  \/ onResetFilters
  \/ setExportFormat
  \/ setExportQuality
  \/ handleDownload
  \/ DownloadLoaded

SpecExport == InitFilters /\ [][NextExport]_vars

\* ----------------------------------------------------------------------
\* editImageWithGemini
\* ----------------------------------------------------------------------

\* An optional property is Null when it is absent (undefined) and Some(v) otherwise.

\* the parts of the model: a text part, and parts with inline data
Parts ==
  {[inlineData |-> Null]} \cup {[inlineData |-> Some([data |-> d])] : d \in {"", "x", "y"}}

\* part lists of a content: absent, or up to two parts
PartLists ==
  {Null, Some(<<>>)} \cup {Some(<<p>>) : p \in Parts} \cup {Some(<<p, q>>) : p, q \in Parts}

\* first candidates: without content (as for a blocked request), or with content
FirstCandidates ==
  {[content |-> Null]} \cup {[content |-> Some([parts |-> ps])] : ps \in PartLists}

\* a second candidate, with an image of its own
OtherCandidate ==
  [content |-> Some([parts |-> Some(<<[inlineData |-> Some([data |-> "z"])]>>)])]

\* what generateContent can do: reject with an error, or resolve with a response
Replies ==
  {[kind |-> "rejected", message |-> m] : m \in ErrMessages}
  \cup {[kind |-> "resolved", candidates |-> cs] :
          cs \in {Null, Some(<<>>)} \cup {Some(<<c>>) : c \in FirstCandidates}
                   \cup {Some(<<c, OtherCandidate>>) : c \in FirstCandidates}}

\* how a call of editImageWithGemini ends
Returned(data) == [ok |-> TRUE, data |-> data]
Thrown(message) == [ok |-> FALSE, message |-> message]

NoImageMessage == "No image data found in the response."
\* the messages of the TypeErrors of V8
NoContentMessage == "Cannot read properties of undefined (reading 'parts')"
NoPartsMessage == "parts is not iterable"

RECURSIVE FirstInlineData(_)
\* the for loop over parts, and the throw after it
FirstInlineData(parts) ==
  IF parts = <<>> THEN Thrown(NoImageMessage)
  ELSE IF Head(parts).inlineData # Null /\ Head(parts).inlineData[1].data # ""
       THEN Returned(Head(parts).inlineData[1].data)
       ELSE FirstInlineData(Tail(parts))

\* the sequence in reverse order
Reversed(q) == [k \in 1..Len(q) |-> q[Len(q) + 1 - k]]

\* an editImageWithGemini that returns the last part with inline data
editImageWithGemini_LastPart(r) ==
  IF r.kind = "rejected" THEN Thrown(r.message)
  ELSE IF r.candidates # Null /\ Len(r.candidates[1]) > 0
       THEN LET content == r.candidates[1][1].content
            IN  IF content = Null THEN Thrown(NoContentMessage)
                ELSE IF content[1].parts = Null THEN Thrown(NoPartsMessage)
                ELSE FirstInlineData(Reversed(content[1].parts[1]))
       ELSE Thrown(NoImageMessage)

\* editImageWithGemini, given what generateContent does: every throw inside
\* the try block is caught, logged and rethrown
editImageWithGemini(r) ==
  IF r.kind = "rejected" THEN Thrown(r.message)
  ELSE IF r.candidates # Null /\ Len(r.candidates[1]) > 0
       THEN LET content == r.candidates[1][1].content
            IN  IF content = Null THEN Thrown(NoContentMessage)
                ELSE IF content[1].parts = Null THEN Thrown(NoPartsMessage)
                ELSE FirstInlineData(content[1].parts[1])
       ELSE Thrown(NoImageMessage)

\* the continuation of a gateway handler after editImageWithGemini settled
GatewayReplies ==
  /\ ~Crashed
  /\ \E i \in 1..Len(calls) :
       LET r == editImageWithGemini(reply)
       IN  /\ result' = Some(r)
           /\ IF r.ok THEN CallSucceeds(i) ELSE CallFails(i, r.message)
  /\ UNCHANGED <<showCropper, showResetConfirmation, bakes, decodes, reads, crops, nextSrc>>
  /\ UNCHANGED <<userPrompt, aspectRatio, export, reply, editor>>
  /\ ViewerFollows

\* the session with a source loaded, and a gateway that will reply in one way
InitGateway ==
  /\ ReadyToEdit(NaturalSize[1], NaturalSize[2])
  /\ aspectRatio = ""
  /\ ExportInit
  /\ reply \in Replies
  /\ result = Null
  /\ EditorInit

NextGateway ==
  \/ handlePromptChange
  \/ handleSubmit
  \/ GatewayReplies
  \/ onUndo
  \/ onRedo

SpecGateway == InitGateway /\ [][NextGateway]_vars

\* ----------------------------------------------------------------------
\* PromptEditor: the local undo history of the prompt and the dimensions
\* ----------------------------------------------------------------------

\* the longest local history the model follows
MaxEntries == 2

\* the prompt of one of the QUICK_ACTIONS
QuickActions ==
  {"Remove the background completely, placing the subject on a pure white background."}

\* ASPECT_RATIOS: ratio = num / den
ASPECT_RATIOS ==
  {[label |-> "1:1", num |-> 1, den |-> 1],
   [label |-> "16:9", num |-> 16, den |-> 9],
   [label |-> "9:16", num |-> 9, den |-> 16],
   [label |-> "4:3", num |-> 4, den |-> 3],
   [label |-> "3:4", num |-> 3, den |-> 4]}

\* the value the user enters into the dimension inputs: a positive integer, for
\* which Math.max(1, parseInt(e.target.value) || 0) is the value entered
InputDims == {2048}

\* Math.round(n / d): the nearest integer, halves upwards. For the long sides
\* of the model (1 to 2048) and the ratios of the presets the floating-point
\* quotient or product rounds to the same integer
RoundedQuotient(n, d) == (2 * n + d) \div (2 * d)

Max(a, b) == IF a >= b THEN a ELSE b

\* { prompt, width, height } of the current render
Shown == [prompt |-> prompt, width |-> width, height |-> height]

\* PromptEditor.saveToHistory
saveToHistory ==
  localHistory' = [past |-> Append(localHistory.past, Shown), future |-> <<>>]

\* every input saves an entry, whether a timer runs or not
Debounced_SavesAlways ==
  /\ Len(localHistory.past) < MaxEntries /\ saveToHistory
  /\ typingTimeout' = TRUE

\* the debounce of handlePromptChange and handleDimensionInput: an entry is saved
\* when no timer runs, and the timer is (re)started
Debounced ==
  /\ IF ~typingTimeout
     THEN Len(localHistory.past) < MaxEntries /\ saveToHistory
     ELSE UNCHANGED localHistory
  /\ typingTimeout' = TRUE

\* what no handler of PromptEditor touches
EditorFrame ==
  UNCHANGED <<appState, originalImage, history, historyIndex, error,
              showCropper, showResetConfirmation, pending, nextId, nextSrc,
              viewer, aspectRatio, export, gatewayIO>>

\* PromptEditor.handlePromptChange: the textarea is disabled while isProcessing
typePrompt ==
  /\ ~Crashed
  /\ EditorUsable /\ ~isLoading
  /\ \E newValue \in {"", "a"} \ {prompt} :
       /\ Debounced
       /\ prompt' = newValue
  /\ userPrompt' = prompt'
  /\ Note("handlePromptChange")
  /\ UNCHANGED <<width, height>>
  /\ EditorFrame

\* PromptEditor.handleDimensionInput, called by the width and the height input
handleDimensionInput ==
  /\ ~Crashed
  /\ EditorUsable
  /\ \E v \in InputDims, side \in {"width", "height"} :
       /\ Debounced
       /\ width' = IF side = "width" THEN v ELSE width
       /\ height' = IF side = "height" THEN v ELSE height
  /\ Note("handleDimensionInput")
  /\ UNCHANGED <<prompt, userPrompt>>
  /\ EditorFrame

\* the timer of typingTimeoutRef runs out, 1000 ms after the last input
TimeoutFires ==
  /\ typingTimeout
  /\ typingTimeout' = FALSE
  /\ Note("timeout")
  /\ UNCHANGED <<prompt, width, height, userPrompt, localHistory>>
  /\ EditorFrame

\* PromptEditor.handleQuickAction: the buttons are disabled while isProcessing
handleQuickAction ==
  /\ ~Crashed
  /\ EditorUsable /\ ~isLoading
  /\ Len(localHistory.past) < MaxEntries
  /\ \E actionPrompt \in QuickActions :
       /\ saveToHistory
       /\ prompt' = actionPrompt
  /\ userPrompt' = prompt'
  /\ Note("handleQuickAction")
  /\ UNCHANGED <<width, height, typingTimeout>>
  /\ EditorFrame

\* PromptEditor.handleAspectRatioClick: the buttons are disabled while isProcessing
handleAspectRatioClick ==
  /\ ~Crashed
  /\ EditorUsable /\ ~isLoading
  /\ Len(localHistory.past) < MaxEntries
  /\ \E preset \in ASPECT_RATIOS :
       LET longSide == Max(width, height)
       IN /\ saveToHistory
          /\ IF preset.num = preset.den
             THEN width' = longSide /\ height' = longSide
             ELSE IF preset.num > preset.den
             THEN /\ width' = longSide
                  /\ height' = RoundedQuotient(longSide * preset.den, preset.num)
             ELSE /\ height' = longSide
                  /\ width' = RoundedQuotient(longSide * preset.num, preset.den)
  /\ Note("handleAspectRatioClick")
  /\ UNCHANGED <<prompt, userPrompt, typingTimeout>>
  /\ EditorFrame

\* PromptEditor.handleLocalUndo: the button is disabled without a past entry
\* and while isProcessing
handleLocalUndo ==
  /\ ~Crashed
  /\ EditorUsable /\ ~isLoading
  /\ Len(localHistory.past) # 0
  /\ LET previous == localHistory.past[Len(localHistory.past)]
         newPast == SubSeq(localHistory.past, 1, Len(localHistory.past) - 1)
     IN /\ localHistory' = [past |-> newPast, future |-> <<Shown>> \o localHistory.future]
        /\ prompt' = previous.prompt
        /\ width' = previous.width
        /\ height' = previous.height
  /\ userPrompt' = prompt'
  /\ Note("handleLocalUndo")
  /\ UNCHANGED typingTimeout
  /\ EditorFrame

\* PromptEditor.handleLocalRedo
handleLocalRedo ==
  /\ ~Crashed
  /\ EditorUsable /\ ~isLoading
  /\ Len(localHistory.future) # 0
  /\ LET next == localHistory.future[1]
         newFuture == Tail(localHistory.future)
     IN /\ localHistory' = [past |-> Append(localHistory.past, Shown), future |-> newFuture]
        /\ prompt' = next.prompt
        /\ width' = next.width
        /\ height' = next.height
  /\ userPrompt' = prompt'
  /\ Note("handleLocalRedo")
  /\ UNCHANGED typingTimeout
  /\ EditorFrame

\* what the local history handlers read and write: the two stacks, and the
\* prompt, width and height of the render
EditorState == [past |-> localHistory.past, future |-> localHistory.future, shown |-> Shown]

\* handleLocalUndo that does not save the current values to future
LocalUndo_DropsCurrent(e) ==
  IF Len(e.past) = 0 THEN e
  ELSE [past |-> SubSeq(e.past, 1, Len(e.past) - 1),
        future |-> e.future,
        shown |-> e.past[Len(e.past)]]

\* handleLocalUndo as a function of the editor state, its early return included
LocalUndo(e) ==
  IF Len(e.past) = 0 THEN e
  ELSE [past |-> SubSeq(e.past, 1, Len(e.past) - 1),
        future |-> <<e.shown>> \o e.future,
        shown |-> e.past[Len(e.past)]]

\* handleLocalRedo as a function of the editor state, its early return included
LocalRedo(e) ==
  IF Len(e.future) = 0 THEN e
  ELSE [past |-> Append(e.past, e.shown),
        future |-> Tail(e.future),
        shown |-> e.future[1]]

\* a source image of 1024 x 1024 was selected and decoded; nothing was entered
InitEditor ==
  /\ appState = "READY_TO_EDIT"
  /\ originalImage = Some([originalData |-> [id |-> 0, root |-> 1, w |-> 1024, h |-> 1024],
                           mimeType |-> "image/jpeg"])
  /\ history = <<>>
  /\ historyIndex = 0 - 1
  /\ prompt = ""
  /\ width = 1024
  /\ height = 1024
  /\ showCropper = FALSE
  /\ showResetConfirmation = FALSE
  /\ error = Null
  /\ calls = <<>>
  /\ bakes = <<>>
  /\ decodes = {}
  /\ reads = 0
  /\ crops = 0
  /\ nextId = 0
  /\ nextSrc = 1
  /\ filters = NeutralFilters
  /\ rotation = 0
  /\ userPrompt = ""
  /\ last = [op |-> "init", idx |-> 0 - 1]
  /\ AuxInit

NextEditor ==
  \/ typePrompt
  \/ handleDimensionInput
  \/ TimeoutFires
  \/ handleQuickAction
  \/ handleAspectRatioClick
  \/ handleLocalUndo
  \/ handleLocalRedo

SpecEditor == InitEditor /\ [][NextEditor]_vars

\* ----------------------------------------------------------------------
\* The dimension inputs of PromptEditor and the target dimensions
\* ----------------------------------------------------------------------

\* e.target.value of the number inputs, as sequences of characters: empty,
\* zero, a negative number, a fraction, an exponent and a plain integer
DimTexts ==
  {<<>>, <<"0">>, <<"-", "5">>, <<"1", ".", "5">>, <<"1", "e", "3">>, <<"2">>}

Digits == <<"0", "1", "2", "3", "4", "5", "6", "7", "8", "9">>

IsDigit(c) == \E d \in 1..10 : Digits[d] = c

DigitValue(c) == (CHOOSE d \in 1..10 : Digits[d] = c) - 1

\* the value of the longest prefix of s made of digits, after acc
RECURSIVE DigitsValue(_, _)
DigitsValue(s, acc) ==
  IF s = <<>> \/ ~IsDigit(Head(s)) THEN acc
  ELSE DigitsValue(Tail(s), 10 * acc + DigitValue(Head(s)))

\* parseInt without a radix, on the texts of the model: an optional sign and
\* the digits that follow it; Null stands for NaN
parseInt(s) ==
  LET signed == s # <<>> /\ Head(s) \in {"-", "+"}
      body == IF signed THEN Tail(s) ELSE s
  IN IF body = <<>> \/ ~IsDigit(Head(body)) THEN Null
     ELSE IF signed /\ Head(s) = "-" THEN Some(0 - DigitsValue(body, 0))
     ELSE Some(DigitsValue(body, 0))

\* parseInt(e.target.value) || 0, without Math.max(1, ...)
ClampedDim_NoClamp(text) ==
  IF parseInt(text) = Null THEN 0 ELSE parseInt(text)[1]

\* Math.max(1, parseInt(e.target.value) || 0)
ClampedDim(text) ==
  LET parsed == IF parseInt(text) = Null THEN 0 ELSE parseInt(text)[1]
  IN Max(1, parsed)

\* onChange of the width or of the height input: handleDimensionInput with the
\* clamped value; the inputs are not disabled while isProcessing
onDimensionChange ==
  /\ ~Crashed
  /\ EditorUsable
  /\ \E text \in DimTexts, side \in {"width", "height"} :
       /\ Debounced
       /\ width' = IF side = "width" THEN ClampedDim(text) ELSE width
       /\ height' = IF side = "height" THEN ClampedDim(text) ELSE height
  /\ Note("onDimensionChange")
  /\ UNCHANGED <<prompt, userPrompt>>
  /\ EditorFrame

\* the editor with its dimension inputs and presets, the local and the global
\* undo and redo, and the reset followed by a new upload
NextDims ==
  \/ onDimensionChange
  \/ handleAspectRatioClick
  \/ TimeoutFires
  \/ handleLocalUndo
  \/ handleLocalRedo
  \/ onUndo
  \/ onRedo
  \/ handleResetRequest
  \/ handleConfirmReset
  \/ processFile
  \/ ReadDone
  \/ DecodeDone

\* the session on any cursor position of a history of two checkpoints, the
\* first of the default size and the second of the size of the source
InitDims ==
  /\ InitEditing
  /\ Len(history) = 2
  /\ <<history[1].width, history[1].height>> = <<DefaultDim, DefaultDim>>
  /\ <<history[2].width, history[2].height>> = NaturalSize
  /\ history[2].prompt = "a"

SpecDims == InitDims /\ [][NextDims]_vars

\* ----------------------------------------------------------------------
\* Properties
\* ----------------------------------------------------------------------

\* the step appended a checkpoint: a gateway handler completed, or a bake was handed over
AppendOps == {"generate:ok", "denoise:ok", "enhance:ok", "bake"}
FailureOps == {"generate:failed", "denoise:failed", "enhance:failed"}

\* C1: the cursor stays within [-1, history.length - 1]; canUndo holds exactly
\* when the cursor is >= 0 and canRedo exactly when it is < history.length - 1.
C1_CursorInRange ==
  /\ historyIndex >= 0 - 1
  /\ historyIndex <= Len(history) - 1
  /\ canUndo <=> historyIndex >= 0
  /\ canRedo <=> historyIndex < Len(history) - 1

\* an undo left the cursor on the first of two checkpoints: undo and redo are both possible
C1_Witness ==
  /\ last.op = "handleUndo"
  /\ Len(history) = 2
  /\ historyIndex = 0
  /\ canUndo /\ canRedo

\* C2: every append keeps the entries up to the cursor, discards the entries
\* after it, pushes the new checkpoint last and moves the cursor onto it, so
\* that redo is disabled right afterwards.
C2_AppendAtCursor ==
  [][last'.op \in AppendOps =>
       /\ Len(history') = historyIndex + 2
       /\ history' = Append(Slice(history, historyIndex + 1), history'[Len(history')])
       /\ historyIndex' = Len(history') - 1
       /\ ~canRedo']_vars

\* C3: undo at cursor -1 and redo at cursor history.length - 1 change nothing
\* of the session (history, cursor, prompt, width, height, state, error, source).
C3_BoundaryNoOp ==
  [][(\/ last'.op = "handleUndo" /\ historyIndex = 0 - 1
      \/ last'.op = "handleRedo" /\ historyIndex = Len(history) - 1)
     => UNCHANGED session]_vars

\* undo was called with the cursor at -1 while the history still held a checkpoint
C3_Witness ==
  /\ last.op = "handleUndo"
  /\ last.idx = 0 - 1
  /\ historyIndex = 0 - 1
  /\ Len(history) > 0

\* C4: undo and redo never change the history sequence; they change only the
\* cursor and what is taken from the checkpoint that becomes current (prompt,
\* width, height, session state).
C4_CursorMovesKeepHistory ==
  [][last'.op \in {"handleUndo", "handleRedo"} =>
       /\ history' = history
       /\ UNCHANGED <<originalImage, error, showCropper, showResetConfirmation,
                      pending, nextId, nextSrc>>]_vars

\* a redo moved the cursor forward inside a history of two checkpoints
C4_Witness ==
  /\ last.op = "handleRedo"
  /\ historyIndex = last.idx + 1
  /\ Len(history) = 2

\* C5: a failed gateway call moves the session to Error with a non-empty
\* message, and history and cursor are what they were when the call was issued.
C5_FailureKeepsHistory ==
  [][last'.op \in FailureOps =>
       /\ appState' = "ERROR"
       /\ error' # Null
       /\ error'[1] # ""
       /\ \E i \in 1..Len(calls) :
            /\ calls' = RemoveAt(calls, i)
            /\ history' = calls[i].history
            /\ historyIndex' = calls[i].historyIndex]_vars

\* C6: at most one operation is in flight, and while the session is Processing
\* none of generate, denoise, enhance, undo, redo, crop-accept runs.
C6_OneInFlight ==
  [][/\ Len(calls') <= 1
     /\ appState = "PROCESSING" =>
          last'.op \notin {"handleSubmit", "handleDenoise", "handleAutoEnhance",
                           "handleUndo", "handleRedo", "handleCroppedImageSelected"}]_vars

\* C7: a completion never drops or overwrites a checkpoint that an earlier
\* completion appended: the entries up to the cursor survive every append.
C7_NoLostAppend ==
  [][last'.op \in AppendOps =>
       /\ Len(history') > historyIndex + 1
       /\ \A k \in 1..(historyIndex + 1) : history'[k] = history[k]]_vars

\* C8: requesting a reset only raises the confirmation gate, cancelling only
\* lowers it, and confirming clears source, history, cursor, prompt and error,
\* sets the dimensions to 1024x1024 and moves the session to Idle.
C8_ResetTwoPhase ==
  [][/\ last'.op = "handleResetRequest" => showResetConfirmation' /\ UNCHANGED session
     /\ last'.op = "CancelReset" => ~showResetConfirmation' /\ UNCHANGED session
     /\ last'.op = "handleConfirmReset" =>
          /\ originalImage' = Null
          /\ history' = <<>>
          /\ historyIndex' = 0 - 1
          /\ prompt' = ""
          /\ error' = Null
          /\ width' = 1024
          /\ height' = 1024
          /\ appState' = "IDLE"]_vars

\* a reset was requested while a checkpoint is viewed: the gate is up, the session is intact
C8_Witness ==
  /\ last.op = "handleResetRequest"
  /\ showResetConfirmation
  /\ originalImage # Null
  /\ historyIndex >= 0
  /\ width # 1024

\* C9: selecting a source moves the session to ReadyToEdit, replaces the
\* source, empties the history, sets the cursor to -1 and clears prompt and error.
C9_SelectSource ==
  [][last'.op = "handleImageSelected" =>
       /\ appState' = "READY_TO_EDIT"
       /\ originalImage' # Null
       /\ originalImage' # originalImage
       /\ originalImage'[1].originalData.root = nextSrc'
       /\ history' = <<>>
       /\ historyIndex' = 0 - 1
       /\ prompt' = ""
       /\ error' = Null]_vars

\* a source was selected while a checkpoint of the previous source was viewed
C9_Witness ==
  /\ last.op = "handleImageSelected"
  /\ last.idx >= 0
  /\ nextSrc = 2
  /\ history = <<>>
  /\ appState = "READY_TO_EDIT"

\* every checkpoint of the history was computed from the current source
RootsMatch ==
  originalImage # Null =>
    \A k \in 1..Len(history) : history[k].image.root = originalImage[1].originalData.root

\* C10: every replacement of the source (upload or crop-accept) empties the
\* history and sets the cursor to -1, so the history never holds a checkpoint
\* computed from an earlier source.
C10_HistoryOfCurrentSource ==
  [][/\ last'.op \in {"handleImageSelected", "handleCroppedImageSelected"} =>
          history' = <<>> /\ historyIndex' = 0 - 1
     /\ RootsMatch']_vars

\* C11: a generate with a non-blank prompt moves the session to Processing, and
\* when it succeeds the session is Complete, the appended checkpoint is the
\* current one and carries the prompt text and the width and height that were
\* in effect when the request was issued.
C11_GenerateSuccess ==
  [][/\ (last'.op = "handleSubmit" /\ Trim(prompt) # "") =>
          /\ appState' = "PROCESSING"
          /\ calls' = Append(calls, calls'[Len(calls')])
          /\ calls'[Len(calls')].kind = "generate"
          /\ calls'[Len(calls')].label = prompt
          /\ calls'[Len(calls')].width = width
          /\ calls'[Len(calls')].height = height
     /\ last'.op = "generate:ok" =>
          /\ appState' = "COMPLETE"
          /\ historyIndex' = Len(history') - 1
          /\ \E i \in 1..Len(calls) :
               /\ calls' = RemoveAt(calls, i)
               /\ calls[i].kind = "generate"
               /\ Item(history', historyIndex').prompt = calls[i].label
               /\ Item(history', historyIndex').width = calls[i].width
               /\ Item(history', historyIndex').height = calls[i].height]_vars

\* a generate succeeded after the late decode of the source had changed the
\* target dimensions: the checkpoint carries the dimensions of the request
C11_Witness ==
  /\ last.op = "generate:ok"
  /\ appState = "COMPLETE"
  /\ historyIndex = Len(history) - 1
  /\ Item(history, historyIndex).prompt = "a"
  /\ Item(history, historyIndex).width = DefaultDim
  /\ width # DefaultDim

\* C12: a bake is a no-op when no checkpoint is selected (cursor < 0); otherwise
\* it appends a checkpoint carrying the prompt, width and height of the
\* checkpoint selected at that moment, and leaves the prompt field, the target
\* dimensions and the session state as they are.
C12_BakeKeepsProvenance ==
  [][last'.op = "bake" =>
       /\ UNCHANGED <<prompt, width, height, appState>>
       /\ IF historyIndex < 0
          THEN UNCHANGED <<history, historyIndex>>
          ELSE /\ Len(history') > 0
               /\ historyIndex' = Len(history') - 1
               /\ Item(history', historyIndex').prompt = Item(history, historyIndex).prompt
               /\ Item(history', historyIndex').width = Item(history, historyIndex).width
               /\ Item(history', historyIndex').height = Item(history, historyIndex).height]_vars

\* C13: a successful denoise appends a checkpoint labelled "Remove Noise (AI)"
\* and a successful enhance one labelled "Auto Enhance (AI)", and the prompt
\* field is set to the same text; a failed denoise or enhance leaves the prompt
\* field as it is.
C13_FixedLabels ==
  [][/\ last'.op = "denoise:ok" =>
          /\ Item(history', historyIndex').prompt = "Remove Noise (AI)"
          /\ prompt' = "Remove Noise (AI)"
     /\ last'.op = "enhance:ok" =>
          /\ Item(history', historyIndex').prompt = "Auto Enhance (AI)"
          /\ prompt' = "Auto Enhance (AI)"
     /\ last'.op \in {"denoise:failed", "enhance:failed"} => prompt' = prompt]_vars

\* a denoise of a generated checkpoint succeeded: the prompt field held the
\* text of the generate before and holds the fixed label now
C13_Witness ==
  /\ last.op = "denoise:ok"
  /\ Len(history) = 2
  /\ historyIndex = 1
  /\ history[1].prompt = "a"
  /\ history[2].prompt = DenoiseLabel
  /\ prompt = DenoiseLabel

\* what the claim takes as the image to send: the viewed checkpoint, else the source
ViewedImage ==
  IF historyIndex >= 0 THEN Some(Item(history, historyIndex).image)
  ELSE IF originalImage # Null THEN Some(originalImage[1].originalData)
  ELSE Null

\* C14: denoise and enhance send the image of the checkpoint at the cursor
\* (also after an undo, when it is not the last entry), or the source image
\* when the cursor is -1.
C14_SendsViewedImage ==
  [][/\ sourceImage = ViewedImage
     /\ last'.op \in {"handleDenoise", "handleAutoEnhance"} =>
          /\ Len(calls') = Len(calls) + 1
          /\ calls' = Append(calls, calls'[Len(calls')])
          /\ Some(calls'[Len(calls')].sent) = ViewedImage]_vars

\* a denoise was started on the first of two checkpoints: the image sent is
\* the first checkpoint's, not the last entry's
C14_Witness ==
  /\ last.op = "handleDenoise"
  /\ Len(history) = 2
  /\ historyIndex = 0
  /\ Len(calls) = 1
  /\ calls[1].sent = history[1].image
  /\ calls[1].sent # history[2].image

\* C15: after an undo or redo that moves the cursor to an index i >= 0, the
\* prompt field and the target width and height are those stored on
\* history[i], and the session state is Complete.
C15_CursorRestoresCheckpoint ==
  [][(/\ last'.op \in {"handleUndo", "handleRedo"}
      /\ historyIndex' # historyIndex
      /\ historyIndex' >= 0) =>
       /\ prompt' = Item(history', historyIndex').prompt
       /\ width' = Item(history', historyIndex').width
       /\ height' = Item(history', historyIndex').height
       /\ appState' = "COMPLETE"]_vars

\* an undo moved the cursor from the second checkpoint to the first, whose
\* prompt and dimensions differ from the second's
C15_Witness ==
  /\ last.op = "handleUndo"
  /\ last.idx = 1
  /\ historyIndex = 0
  /\ Len(history) >= 2
  /\ history[1].prompt # history[2].prompt
  /\ history[1].width # history[2].width
  /\ prompt = history[1].prompt
  /\ width = history[1].width
  /\ height = history[1].height
  /\ appState = "COMPLETE"

\* C17: a generate request with a blank prompt (empty or whitespace only) is a
\* silent no-op: no gateway call starts and session state, error, history and
\* cursor (and the rest of the session) stay as they are.
C17_BlankPromptNoOp ==
  [][(last'.op = "handleSubmit" /\ prompt \in {"", " "}) =>
       UNCHANGED <<session, pending, showCropper, showResetConfirmation, nextId, nextSrc>>]_vars

\* the form was submitted with a whitespace-only prompt while a checkpoint was viewed
C17_Witness ==
  /\ last.op = "handleSubmit"
  /\ prompt = " "
  /\ historyIndex >= 0
  /\ calls = <<>>
  /\ appState = "COMPLETE"

\* C18: once the gateway call of an operation has returned, the operation
\* ends: a failure after the return (the returned bytes do not decode while
\* resampling) moves the session to Error, so no handler stays suspended and
\* the session has left Processing.
C18_DecodeFailureSurfaces ==
  [][last'.op \in {"generate:hung", "denoise:hung", "enhance:hung"} =>
       /\ appState' = "ERROR"
       /\ error' # Null
       /\ Len(calls') = Len(calls) - 1]_vars

\* C16: an undo that moves the cursor from 0 to -1 puts the session in
\* ReadyToEdit and leaves in the prompt field the prompt the user entered last.
C16_UndoToSource ==
  [][(last'.op = "handleUndo" /\ historyIndex = 0) =>
       /\ historyIndex' = 0 - 1
       /\ appState' = "READY_TO_EDIT"
       /\ prompt' = userPrompt]_vars

\* the claim's condition: a filter away from its neutral value, or a rotation
AnyDeviation ==
  \/ \E k \in {"brightness", "contrast", "saturation"} : filters[k] # 100
  \/ \E k \in {"grayscale", "sepia", "temperature"} : filters[k] # 0
  \/ rotation # 0

\* C20: hasActiveFilters is true exactly when one of brightness, contrast,
\* saturation differs from 100, one of grayscale, sepia, temperature differs
\* from 0, or the rotation differs from 0; Apply and Reset Filters are only
\* triggered while it is true.
C20_ActiveAdjustments ==
  [][/\ hasActiveFilters <=> AnyDeviation
     /\ hasActiveFilters' <=> AnyDeviation'
     /\ last'.op \in {"Apply", "handleResetFilters"} => AnyDeviation]_vars

\* Apply was clicked with the rotation as the only deviation
C20_Witness ==
  /\ last.op = "Apply"
  /\ filters = NeutralFilters
  /\ rotation = 270
  /\ hasActiveFilters
  /\ Len(bakes) = 1

\* the checkpoint on view is another one after the step: the cursor moved, or
\* the entry under it was replaced
ViewChanged ==
  \/ historyIndex' # historyIndex
  \/ /\ historyIndex >= 0
     /\ Item(history', historyIndex') # Item(history, historyIndex)

\* C19: whenever the viewed checkpoint changes (a new generate, denoise or
\* enhance result, an undo, a redo, a bake), the pending adjustment is neutral
\* afterwards, also when the checkpoint that becomes current has the same
\* pixels as the one viewed before.
C19_ViewChangeResetsAdjustment ==
  [][ViewChanged => (filters' = NeutralFilters /\ rotation' = 0)]_vars

\* the values of the presets as their literals denote them, times 10000
ExactValues == <<10000, 7500, 13330, 5625, 17770>>

\* | value of preset i - w / h |, times 10000 * h, in exact arithmetic
ExactDistance(i, w, h) ==
  IF ExactValues[i] * h >= 10000 * w
  THEN ExactValues[i] * h - 10000 * w ELSE 10000 * w - ExactValues[i] * h

\* the preset that is closest to w / h, the first one of those equally close
ClosestFirst(w, h) ==
  CHOOSE i \in 1..Len(ratios) :
    /\ \A j \in 1..Len(ratios) : ExactDistance(i, w, h) <= ExactDistance(j, w, h)
    /\ \A j \in 1..(i - 1) : ExactDistance(j, w, h) > ExactDistance(i, w, h)

\* C21: for all positive width and height, getClosestAspectRatio returns the
\* preset whose value is closest to width/height, and of two presets that are
\* equally close the one that comes first in the list
C21_ClosestPresetFirstOnTies ==
  aspectRatio # "" => aspectRatio = ratios[ClosestFirst(width, height)].id

\* C22: getClosestAspectRatio(1000,1000) = "1:1", (1920,1080) gives "16:9",
\* (1080,1920) gives "9:16" and (800,600) gives "4:3"
C22_Examples ==
  aspectRatio # "" =>
    /\ (width = 1000 /\ height = 1000) => aspectRatio = "1:1"
    /\ (width = 1920 /\ height = 1080) => aspectRatio = "16:9"
    /\ (width = 1080 /\ height = 1920) => aspectRatio = "9:16"
    /\ (width = 800 /\ height = 600) => aspectRatio = "4:3"

\* C22: the aspect ratio of 1920 x 1080 has been computed
C22_Witness ==
  width = 1920 /\ height = 1080 /\ aspectRatio = "16:9"

\* C24: the pending rotation is always one of 0, 90, 180, 270; a clockwise
\* rotate maps r to (r + 90) mod 360 and a counter-clockwise one to
\* (r - 90) mod 360, so that clockwise then counter-clockwise restores r and
\* four rotates in the same direction restore r
C24_RotationWraps ==
  [][/\ rotation' \in {0, 90, 180, 270}
     /\ last'.op = "handleRotate" =>
          \/ rotation' = (rotation + 90) % 360
          \/ rotation' = (rotation - 90) % 360
     /\ \A d \in {"cw", "ccw"} :
          /\ Rotated(Rotated(Rotated(Rotated(rotation, d), d), d), d) = rotation
          /\ Rotated(Rotated(rotation, d), IF d = "cw" THEN "ccw" ELSE "cw") = rotation]_vars

\* C24: a counter-clockwise rotate from 0 has wrapped to 270
C24_Witness ==
  last.op = "handleRotate" /\ rotation = 270 /\ filters = NeutralFilters

\* width and height of img, swapped when deg is an odd multiple of 90
SwappedWhenOdd(img, deg) ==
  IF (deg \div 90) % 2 = 1 THEN <<img.h, img.w>> ELSE <<img.w, img.h>>

\* C23: the baked or exported canvas has the width and height of the image
\* swapped exactly when the rotation it was started with is an odd multiple of
\* 90 degrees (90 swaps; 180, i.e. 90 twice, does not)
C23_CanvasSwapsOnOddQuarterTurns ==
  [][/\ last'.op = "bake" =>
          \E i \in 1..Len(bakes) :
            /\ bakes' = RemoveAt(bakes, i)
            /\ LET baked == Item(history', historyIndex').image
               IN  <<baked.w, baked.h>> = SwappedWhenOdd(bakes[i].base, bakes[i].rotation)
     /\ last'.op = "download" =>
          \E i \in 1..Len(downloads) :
            /\ downloads' = RemoveAt(downloads, i)
            /\ exported'[1].canvas = SwappedWhenOdd(downloads[i].image, downloads[i].rotation)]_vars

\* C23: a bake and an export of the 2 x 1 checkpoint have both produced a 1 x 2 canvas
C23_Witness ==
  /\ Len(history) = 2
  /\ <<history[2].image.w, history[2].image.h>> = <<NaturalSize[2], NaturalSize[1]>>
  /\ exported # Null
  /\ exported[1].canvas = <<NaturalSize[2], NaturalSize[1]>>

\* the white background of a jpeg export: an opaque fill of the whole canvas
WhiteFill(size) ==
  [op |-> "fillRect", fillStyle |-> "#FFFFFF", filter |-> "none", rotate |-> 0,
   composite |-> "source-over", rect |-> size]

\* the drawing operations of kind `op` in ops, as positions
Positions(ops, op) == {k \in 1..Len(ops) : ops[k].op = op}

\* C26: an export draws, for jpeg, an opaque white fill of the whole canvas,
\* then the image with the pending color filter and rotation, then the
\* temperature overlay; for png no background fill; the encoder quality is
\* exportQuality/100 for jpeg and does not depend on exportQuality for png
C26_ExportOrderAndQuality ==
  [][last'.op = "download" =>
       \E i \in 1..Len(downloads) :
         LET d == downloads[i]
             file == exported'[1]
             ops == file.ops
             first == IF d.exportFormat = "jpeg" THEN 2 ELSE 1
         IN  /\ downloads' = RemoveAt(downloads, i)
             /\ d.exportFormat = "jpeg" => ops[1] = WhiteFill(file.canvas)
             /\ d.exportFormat = "png" => \A k \in Positions(ops, "fillRect") : ops[k].composite = "soft-light"
             /\ ops[first].op = "drawImage"
             /\ ops[first].filter = ColorFilter(d.filters)
             /\ ops[first].rotate = d.rotation
             /\ Positions(ops, "drawImage") = {first}
             /\ \A k \in Positions(ops, "fillRect") : ops[k].composite = "soft-light" => k = first + 1
             /\ Len(ops) <= first + 1
             /\ d.exportFormat = "jpeg" =>
                  /\ d.exportQuality \in 1..100
                  /\ file.quality[1] * 100 = d.exportQuality * file.quality[2]
                  /\ file.mimeType = "image/jpeg"
             /\ d.exportFormat = "png" =>
                  /\ file.quality = Frac(1, 1)
                  /\ file.mimeType = "image/png"]_vars

\* C26: a jpeg export at quality 1 with a temperature overlay has been produced
C26_Witness ==
  /\ exported # Null
  /\ exported[1].mimeType = "image/jpeg"
  /\ exported[1].quality = Frac(1, 100)
  /\ Len(exported[1].ops) = 3

\* C27: the temperature overlay is drawn after the color filter and rotation,
\* only when temperature is not 0; it is warm orange (255,147,41) for a
\* positive and cool blue (0,160,255) for a negative temperature, and its
\* alpha is |temperature| / 200, at most 0.5 and 0.5 exactly at |temperature| = 100
C27_TemperatureOverlay ==
  [][last'.op = "download" =>
       \E i \in 1..Len(downloads) :
         LET t == downloads[i].filters["temperature"]
             ops == exported'[1].ops
             overlays == {k \in 1..Len(ops) : ops[k].op = "fillRect" /\ ops[k].composite = "soft-light"}
         IN  /\ downloads' = RemoveAt(downloads, i)
             /\ (t = 0) <=> (overlays = {})
             /\ \A k \in overlays :
                  /\ \A j \in Positions(ops, "drawImage") : j < k
                  /\ overlays = {k}
                  /\ ops[k].fillStyle.rgb = IF t > 0 THEN <<255, 147, 41>> ELSE <<0, 160, 255>>
                  /\ ops[k].fillStyle.alpha[1] * 200 = Abs(t) * ops[k].fillStyle.alpha[2]
                  /\ ops[k].fillStyle.alpha[1] * 2 <= ops[k].fillStyle.alpha[2]
                  /\ (ops[k].fillStyle.alpha[1] * 2 = ops[k].fillStyle.alpha[2]) <=> (Abs(t) = 100)]_vars

\* C27: a png export with the cool overlay at temperature -100 has been produced
C27_Witness ==
  /\ exported # Null
  /\ exported[1].mimeType = "image/png"
  /\ Len(exported[1].ops) = 2
  /\ exported[1].ops[2].fillStyle.rgb = <<0, 160, 255>>
  /\ exported[1].ops[2].fillStyle.alpha = Frac(100, 200)

\* the parts of the first candidate of a response, none when there is no
\* candidate or the candidate carries no part list
FirstCandidateParts(r) ==
  IF r.candidates = Null \/ r.candidates[1] = <<>> THEN <<>>
  ELSE LET first == r.candidates[1][1]
       IN  IF first.content = Null \/ first.content[1].parts = Null THEN <<>>
           ELSE first.content[1].parts[1]

\* the outcome the claim gives for a reply of generateContent
ClaimedOutcome(r) ==
  IF r.kind = "rejected" THEN Thrown(r.message)
  ELSE LET parts == FirstCandidateParts(r)
           images == {k \in 1..Len(parts) :
                        parts[k].inlineData # Null /\ parts[k].inlineData[1].data # ""}
       IN  IF images = {} THEN Thrown("No image data found in the response.")
           ELSE Returned(parts[CHOOSE k \in images : \A j \in images : k <= j].inlineData[1].data)

\* C28: editImageWithGemini returns the data of the first part with non-empty
\* inline data of the first candidate; without a candidate or such a part it
\* fails with "No image data found in the response."; every failure, of the
\* network call or for the missing image, is rethrown and handled by the
\* caller in the same way
C28_FirstImageOrFailure ==
  [][last'.op \in {"generate:ok", "generate:failed"} =>
       /\ result' = Some(ClaimedOutcome(reply))
       /\ ~result'[1].ok =>
            /\ appState' = "ERROR"
            /\ error' = Some(MessageOf("generate", result'[1].message))
            /\ UNCHANGED <<history, historyIndex>>]_vars

\* the raw inputs and the actions that commit an entry of their own
InputOps == {"handlePromptChange", "handleDimensionInput"}
CommitOps == {"handleQuickAction", "handleAspectRatioClick"}

\* C25: the prompt and dimension inputs keep a debounced local undo history.
\* An input made while the idle timer of 1000 ms runs adds no entry (it joins the
\* entry of the input that started the timer); an input made when no timer runs
\* and every quick action or aspect-ratio preset adds exactly one entry, the
\* prompt, width and height shown before it; and a local undo restores the
\* newest entry, so that after such an action it restores what was shown
\* just before the action.
C25_DebouncedLocalHistory ==
  [][/\ (last'.op \in InputOps /\ typingTimeout) => UNCHANGED localHistory
     /\ (last'.op \in CommitOps \/ (last'.op \in InputOps /\ ~typingTimeout)) =>
          localHistory' = [past |-> Append(localHistory.past, Shown), future |-> <<>>]
     /\ last'.op = "handleLocalUndo" =>
          /\ localHistory.past # <<>>
          /\ [prompt |-> prompt', width |-> width', height |-> height']
               = localHistory.past[Len(localHistory.past)]
          /\ localHistory'.past = SubSeq(localHistory.past, 1, Len(localHistory.past) - 1)]_vars

\* C25 witness: two inputs were coalesced into one entry, a preset was clicked
\* while the timer ran and committed its own entry, and the local undo brought
\* back the dimensions shown before the click
C25_Witness ==
  /\ last.op = "handleLocalUndo"
  /\ typingTimeout
  /\ Len(localHistory.past) = 1
  /\ localHistory.past[1] = [prompt |-> "", width |-> 1024, height |-> 1024]
  /\ Shown = [prompt |-> "a", width |-> 2048, height |-> 1024]
  /\ Len(localHistory.future) = 1
  /\ localHistory.future[1] = [prompt |-> "a", width |-> 2048, height |-> 1152]

\* C29: whenever the session is not Idle a source image is set, also when a
\* reset is confirmed while a gateway call is in flight and the call completes
\* afterwards, so the editor view never reads a missing source.
C29_SourceSetUnlessIdle ==
  appState # "IDLE" => originalImage # Null

\* what handleConfirmReset and the initial state set
SessionDefaults ==
  /\ originalImage = Null
  /\ history = <<>>
  /\ historyIndex = 0 - 1
  /\ prompt = ""
  /\ error = Null
  /\ width = DefaultDim
  /\ height = DefaultDim

\* C30: whenever the session is Idle the source is absent, the history is
\* empty, the cursor is -1, the prompt is empty, the error is null and the
\* target dimensions are 1024 x 1024; a decode started before a reset and
\* completed after it does not change the dimensions.
C30_IdleMeansDefaults ==
  appState = "IDLE" => SessionDefaults

\* C31: the error message is non-null exactly when the session state is Error;
\* every transition that leaves Error, undo and redo included, clears it.
C31_ErrorIffErrorState ==
  (error # Null) <=> (appState = "ERROR")

\* C32: in state Complete a checkpoint is selected (cursor >= 0) and in state
\* ReadyToEdit none is (cursor = -1), also when a bake started before an undo
\* or a generate completes after it.
C32_StateMatchesCursor ==
  /\ appState = "COMPLETE" => historyIndex >= 0
  /\ appState = "READY_TO_EDIT" => historyIndex = 0 - 1

\* C33: for every checkpoint of the history the recorded width and height are
\* the pixel width and height of its image, for the checkpoints of generate,
\* denoise and enhance and for those of a bake, also with rotation 90 or 270.
C33_RecordedSizeIsPixelSize ==
  \A i \in 1..Len(history) :
    /\ history[i].width = history[i].image.w
    /\ history[i].height = history[i].image.h

\* the call a handler has just started
StartedCall == calls'[Len(calls')]

\* C34: generate sends the source image to the gateway whatever the cursor and
\* the history are, so its checkpoint is computed from the source and from no
\* earlier checkpoint; denoise and enhance send the image of the viewed checkpoint.
C34_GenerateSendsSource ==
  [][/\ (last'.op = "handleSubmit" /\ calls' # calls) =>
          /\ calls' = Append(calls, StartedCall)
          /\ StartedCall.kind = "generate"
          /\ Some(StartedCall.sent) = Some(originalImage[1].originalData)
          /\ \A i \in 1..Len(history) : StartedCall.sent # history[i].image
     /\ (last'.op \in {"handleDenoise", "handleAutoEnhance"} /\ calls' # calls) =>
          /\ historyIndex >= 0
          /\ StartedCall.sent = Item(history, historyIndex).image]_vars

\* C34 witness: a generate was started while the second of two checkpoints was
\* on screen, and the image sent is the source, not a checkpoint
C34_Witness ==
  /\ last.op = "handleSubmit"
  /\ Len(history) = 2
  /\ historyIndex = 1
  /\ Len(calls) = 1
  /\ calls[1].kind = "generate"
  /\ originalImage # Null
  /\ calls[1].sent = originalImage[1].originalData
  /\ calls[1].sent # history[2].image

\* C35: crop-accept keeps the prompt text while it replaces the source, empties
\* the history, clears the error, closes the cropper and moves the session to
\* ReadyToEdit; a new upload clears the prompt.
C35_CropKeepsPrompt ==
  [][/\ last'.op = "handleCroppedImageSelected" =>
          /\ prompt' = prompt
          /\ originalImage' # Null
          /\ originalImage' # originalImage
          /\ history' = <<>>
          /\ historyIndex' = 0 - 1
          /\ error' = Null
          /\ showCropper' = FALSE
          /\ appState' = "READY_TO_EDIT"
     /\ last'.op = "handleImageSelected" => prompt' = ""]_vars

\* C35 witness: a crop was accepted while a checkpoint was on screen and the
\* prompt field held text; the history is gone and the text is still there
C35_Witness ==
  /\ last.op = "handleCroppedImageSelected"
  /\ last.idx >= 0
  /\ prompt = "a"
  /\ history = <<>>
  /\ historyIndex = 0 - 1
  /\ appState = "READY_TO_EDIT"
  /\ ~showCropper

\* C36: the target width and height are integers >= 1 in every reachable state,
\* after any dimension input (empty, zero and negative texts included), preset
\* click, local or global undo or redo and reset, for source images of natural
\* size >= 1; and a preset click leaves max(width, height) unchanged.
C36_DimensionsAtLeastOne ==
  /\ [](width \in Nat /\ height \in Nat /\ width >= 1 /\ height >= 1)
  /\ [][last'.op = "handleAspectRatioClick" => Max(width', height') = Max(width, height)]_vars

\* C36 witness: an empty or non-positive text was entered as the width (which
\* became 1), then a preset was clicked and gave a height of 1 for a long side of 1
C36_Witness ==
  /\ last.op = "handleAspectRatioClick"
  /\ width = 1 /\ height = 1
  /\ Len(localHistory.past) = 2
  /\ localHistory.past[2].width = 1
  /\ localHistory.past[2].height = 1
  /\ localHistory.past[1].width # 1

\* C37: in the local history of the prompt editor, an undo (of a non-empty
\* past) followed at once by a redo restores the prompt, the width, the height
\* and both stacks, and so does a redo (of a non-empty future) followed by an
\* undo; an undo with an empty past and a redo with an empty future change nothing. The handlers are the functions LocalUndo and
\* LocalRedo of the editor state.
C37_LocalUndoRedoInverse ==
  /\ [][/\ last'.op = "handleLocalUndo" => EditorState' = LocalUndo(EditorState)
        /\ last'.op = "handleLocalRedo" => EditorState' = LocalRedo(EditorState)]_vars
  /\ [](/\ localHistory.past # <<>> => LocalRedo(LocalUndo(EditorState)) = EditorState
        /\ localHistory.future # <<>> => LocalUndo(LocalRedo(EditorState)) = EditorState
        /\ localHistory.past = <<>> => LocalUndo(EditorState) = EditorState
        /\ localHistory.future = <<>> => LocalRedo(EditorState) = EditorState)

\* C37 witness: two entries were undone and redone, and the editor is back on
\* the text of the quick action with both entries in the past and no future
C37_Witness ==
  /\ last.op = "handleLocalRedo"
  /\ Len(localHistory.past) = 2
  /\ localHistory.future = <<>>
  /\ prompt \in QuickActions
  /\ localHistory.past[2].prompt = "a"
  /\ localHistory.past[1].prompt = ""

\* C38: every new edit of the prompt or the dimensions (a keystroke, a dimension
\* input, a quick action or a preset) empties the redo stack of the local
\* history, also a keystroke made within 1000 ms of an earlier one with a
\* local undo in between.
C38_EditEmptiesFuture ==
  [][last'.op \in InputOps \cup CommitOps => localHistory'.future = <<>>]_vars

\* the steps of an export: the click on Download and the img.onload that follows
DownloadOps == {"handleDownload", "download"}

\* C39: export does nothing when no checkpoint is selected; otherwise it leaves
\* the history, the cursor, the pending adjustment (filters and rotation), the
\* prompt, the target dimensions and the session state unchanged: the
\* adjustment goes into the exported pixels only and no checkpoint is made.
C39_ExportChangesNothing ==
  [][/\ last'.op \in DownloadOps =>
          /\ UNCHANGED <<history, historyIndex, filters, rotation, prompt, width, height,
                         appState, originalImage, error, nextId>>
     /\ last'.op = "handleDownload" =>
          /\ generatedImage # Null
          /\ Len(downloads') = Len(downloads) + 1
          /\ downloads'[Len(downloads')].image = generatedImage[1]
          /\ downloads'[Len(downloads')].filters = filters
          /\ downloads'[Len(downloads')].rotation = rotation
     /\ last'.op = "download" =>
          /\ exported' # Null
          /\ \E i \in 1..Len(downloads) :
               /\ exported'[1].canvas = CanvasOf(downloads[i].image, downloads[i].rotation)
               /\ LET ops == exported'[1].ops
                      drawn == applyCanvasTransformations(downloads[i].filters, downloads[i].rotation,
                                                          exported'[1].canvas[1], exported'[1].canvas[2])
                  IN /\ Len(ops) >= Len(drawn)
                     /\ SubSeq(ops, Len(ops) - Len(drawn) + 1, Len(ops)) = drawn]_vars

\* C39 witness: a picture rotated by 90 degrees and brightened was exported; the
\* file has the swapped size, and the history still is the one checkpoint with
\* the adjustment pending
C39_Witness ==
  /\ last.op = "download"
  /\ exported # Null
  /\ exported[1].canvas = <<NaturalSize[2], NaturalSize[1]>>
  /\ rotation = 90
  /\ filters.brightness = 200
  /\ Len(history) = 1
  /\ historyIndex = 0
  /\ appState = "COMPLETE"

=============================================================================
